---------------------------- MODULE Spec2Model ----------------------------
(***************************************************************************)
(* A model of the esruntime command executor, query planner and            *)
(* projection runner.                                                      *)
(*                                                                         *)
(*   SpecPlan : the query planner (build_query_items) and the tag encoding *)
(*              of an emitted event (EmittedEvent::into_dcb_event).        *)
(*   SpecPlanAny : SpecPlan over bindings whose keys may hold no value.    *)
(*   SpecExec : Command::execute_with run by concurrent executors against  *)
(*              one DCB event store.                                       *)
(*   SpecDup  : SpecExec with a read stream that may deliver an event more *)
(*              than once.                                                 *)
(*   SpecFold : the fold of execute_with over stored events of any kind.   *)
(*   SpecClock: the executor with contexts and a clock that advances.      *)
(*   SpecColon: the executor emitting an event with a ':' in a field name. *)
(*   SpecBlocking : execute_blocking_with beside execute_with.             *)
(*   SpecBank : the executor instantiated with the TransferFunds command.  *)
(*   SpecTransfer : TransferFunds::handle over short bank histories.       *)
(*   SpecAccounts : OpenAccount and TransferFunds run concurrently.        *)
(*   SpecKanban : the kanban example's task commands run concurrently.     *)
(*   SpecProj : ProjectionRunner instances sharing one checkpoint row.     *)
(*   SpecLive : one ProjectionRunner whose next() keeps being called.      *)
(***************************************************************************)
EXTENDS Naturals, Integers, Sequences, FiniteSets, TLC

VARIABLES
    \* ---- query planner ----
    plSet,        \* name of the EventSet (Command::Query) planned against
    plBindings,   \* DomainIdBindings: field name -> sequence of values
    plEvent,      \* an emitted event: [event_type, domain_ids]
    plItems,      \* Vec<DCBQueryItem> returned by build_query_items
    plAgain,      \* what a second call of build_query_items returned (Option)
    plDcb,        \* DCBEvent produced by into_dcb_event (type and tags)
    plPc          \* "init" | "planned" | "done"

planVars == <<plSet, plBindings, plEvent, plItems, plAgain, plDcb, plPc>>

VARIABLES
    \* ---- event store and command executors ----
    log,          \* the DCB store: log[p] is the event at position p
    ex,           \* ex[e]: the execution run by executor e
    clock         \* clock[e]: the reading of Utc::now() on executor e

execVars == <<log, ex, clock>>

VARIABLES
    \* ---- the blocking executor, run next to an async execution ----
    blog,         \* the store the blocking execution runs against
    bx            \* the execution of execute_blocking_with

blkVars == <<blog, bx>>

--------------------------------------------------------------------------
(* Generic helpers *)

\* Option<T>: None and Some(x)
None == <<>>
Some(x) == <<x>>

SeqToSet(s) == {s[i] : i \in DOMAIN s}

Perms(S) ==
    {p \in [1..Cardinality(S) -> S] : \A i, j \in 1..Cardinality(S) : p[i] = p[j] => i = j}

RECURSIVE Concat(_)
Concat(ss) == IF ss = <<>> THEN <<>> ELSE Head(ss) \o Concat(Tail(ss))

--------------------------------------------------------------------------
(* Bounds of the planner universe *)

MaxVals == 2      \* longest value sequence bound to one domain-ID name

\* Field names in the order str::cmp gives them (used by Vec::sort).
FieldOrder == <<"account_id", "bet_id", "recipient_id", "sender_id", "task_id", "user_id">>
Fields == {"bet_id", "user_id"}
Values == {"abc", "xyz"}

--------------------------------------------------------------------------
(* Data model *)

\* DomainIdValue::Value(v) and DomainIdValue::None
Present(v) == [present |-> TRUE, value |-> v]
Absent == [present |-> FALSE, value |-> ""]
DomainIdValue == {Present(v) : v \in Values} \cup {Absent}

\* EVENT_DOMAIN_IDS of the EventSets used by the planner's tests.
MixedFieldEvents ==
    << [type |-> "UserRegistered", fields |-> <<"user_id">>],
       [type |-> "UserCompletedOnboarding", fields |-> <<"user_id">>],
       [type |-> "BetTracked", fields |-> <<"bet_id", "user_id">>] >>

SingleFieldEvents ==
    << [type |-> "EventA", fields |-> <<"user_id">>],
       [type |-> "EventB", fields |-> <<"user_id">>] >>

NoDomainsEvent == << [type |-> "GlobalEvent", fields |-> <<>>] >>

EventSetNames == {"MixedFieldEvents", "SingleFieldEvents", "NoDomainsEvent"}

EVENT_DOMAIN_IDS(q) ==
    CASE q = "MixedFieldEvents" -> MixedFieldEvents
      [] q = "SingleFieldEvents" -> SingleFieldEvents
      [] q = "NoDomainsEvent" -> NoDomainsEvent

EVENT_TYPES(q) == [i \in DOMAIN EVENT_DOMAIN_IDS(q) |-> EVENT_DOMAIN_IDS(q)[i].type]

\* DomainIdBindings: a key exists only with the values pushed for it.
ValueSeqs == UNION {[1..n -> Values] : n \in 1..MaxVals}
BindingsUniverse == UNION {[K -> ValueSeqs] : K \in SUBSET Fields}

--------------------------------------------------------------------------
(* crates/sdk/src/emit.rs *)

\* format!("{category}:{id}")
Tag(category, id) == category \o ":" \o id

\* category.contains(':'), over the field names of the model: ColonFields
\* are the names written with a colon.
ColonFields == {"tenant:id"}
contains_colon(category) == category \in ColonFields

\* The assertion is made for the fields that give a tag only.
into_dcb_event_panicsPresent(ev) ==
    \E category \in DOMAIN ev.domain_ids :
        ev.domain_ids[category].present /\ contains_colon(category)

\* EmittedEvent::into_dcb_event: the assert! on every category, ahead of the
\* match on its value.
into_dcb_event_panics(ev) ==
    \E category \in DOMAIN ev.domain_ids : contains_colon(category)

\* A tag for every domain-ID field, Absent ones included.
into_dcb_eventAllFields(ev) ==
    [event_type |-> ev.event_type,
     tags |-> {Tag(f, ev.domain_ids[f].value) : f \in DOMAIN ev.domain_ids}]

\* EmittedEvent::into_dcb_event: one tag per Value, none for None.  The Vec
\* of tags is collected from a HashMap, so its order is unspecified; the
\* store only tests membership, and the tags are kept as a set.
into_dcb_event(ev) ==
    [event_type |-> ev.event_type,
     tags |-> {Tag(f, ev.domain_ids[f].value) :
                  f \in {g \in DOMAIN ev.domain_ids : ev.domain_ids[g].present}}]

--------------------------------------------------------------------------
(* crates/sdk/src/command.rs: build_query_items, cartesian_product *)

\* relevant_fields: the fields that are keys of the bindings, sorted.
relevant_fields(fields, bindings) ==
    SelectSeq(FieldOrder, LAMBDA f : f \in SeqToSet(fields) /\ f \in DOMAIN bindings)

\* The keys of `groups`.
GroupKeys(edi, bindings) ==
    {relevant_fields(edi[i].fields, bindings) : i \in DOMAIN edi}

\* groups[key]: the event types pushed under the key, in EVENT_DOMAIN_IDS order.
GroupTypes(edi, bindings, key) ==
    LET sel == SelectSeq(edi, LAMBDA e : relevant_fields(e.fields, bindings) = key)
    IN [i \in DOMAIN sel |-> sel[i].type]

\* cartesian_product over the bindings iterated in `order` (the iteration
\* order of the HashMap group_bindings).
RECURSIVE cartesian_product(_, _)
cartesian_product(order, bindings) ==
    IF order = <<>> THEN << <<>> >>
    ELSE LET combinations == cartesian_product(SubSeq(order, 1, Len(order) - 1), bindings)
             field_name == order[Len(order)]
             values == bindings[field_name]
             n == Len(values)
         IN [k \in 1..(Len(combinations) * n) |->
                Append(combinations[((k - 1) \div n) + 1],
                       Tag(field_name, values[((k - 1) % n) + 1]))]

\* A group without bound fields gets no item.
GroupItemsNoneForEmpty(key, event_types, bindings, order) ==
    IF key = <<>>
    THEN <<>>
    ELSE LET tag_combinations == cartesian_product(order, bindings)
         IN [k \in DOMAIN tag_combinations |->
                [tags |-> tag_combinations[k], types |-> event_types]]

\* Only the first tag combination of a group becomes an item.
GroupItemsFirst(key, event_types, bindings, order) ==
    IF key = <<>>
    THEN << [tags |-> <<>>, types |-> event_types] >>
    ELSE LET tag_combinations == cartesian_product(order, bindings)
         IN << [tags |-> tag_combinations[1], types |-> event_types] >>

\* The items pushed for one group.
GroupItems(key, event_types, bindings, order) ==
    IF key = <<>>
    THEN << [tags |-> <<>>, types |-> event_types] >>
    ELSE LET tag_combinations == cartesian_product(order, bindings)
         IN [k \in DOMAIN tag_combinations |->
                [tags |-> tag_combinations[k], types |-> event_types]]

\* Only the group the HashMap yields first gets its items.
build_query_itemsFirstGroup(edi, bindings, gorder, forder) ==
    GroupItems(gorder[1], GroupTypes(edi, bindings, gorder[1]), bindings, forder[gorder[1]])

\* build_query_items, given the iteration order of `groups` (gorder) and of
\* each group's group_bindings (forder[key]).
build_query_items(edi, bindings, gorder, forder) ==
    Concat([g \in DOMAIN gorder |->
              GroupItems(gorder[g], GroupTypes(edi, bindings, gorder[g]),
                         bindings, forder[gorder[g]])])

\* The iteration orders a HashMap may produce.
GroupOrders(edi, bindings) == Perms(GroupKeys(edi, bindings))
FieldOrders(edi, bindings) ==
    LET keys == GroupKeys(edi, bindings)
    IN {fo \in [keys -> UNION {Perms(SeqToSet(k)) : k \in keys}] :
          \A k \in keys : fo[k] \in Perms(SeqToSet(k))}

\* DCBQueryItem matching: the event's type is one of the item's types and
\* every tag of the item is on the event.
ItemMatches(item, ev) ==
    /\ ev.event_type \in SeqToSet(item.types)
    /\ SeqToSet(item.tags) \subseteq ev.tags

QueryMatches(items, ev) == \E i \in DOMAIN items : ItemMatches(items[i], ev)


--------------------------------------------------------------------------
(* Bounds of the executor universe *)

NumExec == 2      \* concurrent executors, each running one execution
MaxLog == 3       \* longest event log explored
MaxForeign == 1   \* events appended by writers other than the executors
MaxAmount == 2    \* largest transfer amount
MaxTransfers == 2 \* transfers appended to the bank's log
MaxHistory == 3   \* events in the store before a transfer is handled
MaxBankLog == 6   \* events of the bank's log when accounts are opened by commands
MaxKanbanLog == 4 \* events of the kanban log
MaxClock == 2     \* largest reading of an executor's clock
MaxFoldLog == 3   \* longest history folded

Execs == 1..NumExec
Accounts == {"alice", "bob", "god"}

--------------------------------------------------------------------------
(* examples/bank_account: events and the TransferFunds command *)

\* A read set without SentFunds: money sent is neither folded nor a conflict.
TransferQueryNoSent ==
    << [type |-> "OpenedAccount", fields |-> <<"account_id">>],
       [type |-> "ReceivedFunds", fields |-> <<"account_id", "sender_id">>] >>

TransferQuery ==
    << [type |-> "OpenedAccount", fields |-> <<"account_id">>],
       [type |-> "SentFunds", fields |-> <<"account_id", "recipient_id">>],
       [type |-> "ReceivedFunds", fields |-> <<"account_id", "sender_id">>] >>

OpenedAccount(account_id, initial_balance) ==
    [event_type |-> "OpenedAccount",
     domain_ids |-> [account_id |-> Present(account_id)],
     data |-> [account_id |-> account_id, amount |-> initial_balance, other |-> "", decodes |-> TRUE]]

SentFunds(account_id, amount, recipient_id) ==
    [event_type |-> "SentFunds",
     domain_ids |-> [account_id |-> Present(account_id), recipient_id |-> Present(recipient_id)],
     data |-> [account_id |-> account_id, amount |-> amount, other |-> recipient_id, decodes |-> TRUE]]

ReceivedFunds(account_id, amount, sender_id) ==
    [event_type |-> "ReceivedFunds",
     domain_ids |-> [account_id |-> Present(account_id), sender_id |-> Present(sender_id)],
     data |-> [account_id |-> account_id, amount |-> amount, other |-> sender_id, decodes |-> TRUE]]

\* The f64 of amounts and balances: the whole numbers of the model, and NaN
\* under the code NaN.  A comparison with NaN is false; arithmetic on NaN
\* gives NaN.
NaN == 1000
F64Le(a, b) == a # NaN /\ b # NaN /\ a <= b
F64Lt(a, b) == a # NaN /\ b # NaN /\ a < b
F64Add(a, b) == IF a = NaN \/ b = NaN THEN NaN ELSE a + b
F64Sub(a, b) == IF a = NaN \/ b = NaN THEN NaN ELSE a - b

\* TransferFunds::default()
TransferDefault == [balances |-> <<>>, open_accounts |-> {}]

\* TransferFunds::apply
TransferApply(state, ev) ==
    LET acc == ev.data.account_id IN
    CASE ev.event_type = "OpenedAccount" ->
            [balances |-> (acc :> ev.data.amount) @@ state.balances,
             open_accounts |-> state.open_accounts \cup {acc}]
      [] ev.event_type = "SentFunds" ->
            IF acc \in DOMAIN state.balances
            THEN [state EXCEPT !.balances[acc] = F64Sub(@, ev.data.amount)]
            ELSE state
      [] ev.event_type = "ReceivedFunds" ->
            IF acc \in DOMAIN state.balances
            THEN [state EXCEPT !.balances[acc] = F64Add(@, ev.data.amount)]
            ELSE state
      [] OTHER -> state

\* The events of a successful transfer.
TransferEmit(input) ==
    << SentFunds(input.source_account, input.amount, input.dest_account),
       ReceivedFunds(input.dest_account, input.amount, input.source_account) >>

\* TransferFunds::handle
TransferHandle(state, input) ==
    LET source_balance == IF input.source_account \in DOMAIN state.balances
                          THEN state.balances[input.source_account] ELSE 0
    IN  IF input.source_account # "god" /\ input.source_account \notin state.open_accounts
        THEN [ok |-> FALSE, emit |-> <<>>, error |-> "Source account not open"]
        ELSE IF input.dest_account \notin state.open_accounts
        THEN [ok |-> FALSE, emit |-> <<>>, error |-> "Destination account not open"]
        ELSE IF input.dest_account = "god"
        THEN [ok |-> FALSE, emit |-> <<>>, error |-> "God has enough money"]
        ELSE IF input.source_account = input.dest_account
        THEN [ok |-> FALSE, emit |-> <<>>, error |-> "You cannot send money to yourself"]
        ELSE IF F64Le(input.amount, 0)
        THEN [ok |-> FALSE, emit |-> <<>>, error |-> "Amount must be positive"]
        ELSE IF input.source_account # "god" /\ F64Lt(source_balance, input.amount)
        THEN [ok |-> FALSE, emit |-> <<>>, error |-> "Insufficient funds"]
        ELSE [ok |-> TRUE, emit |-> TransferEmit(input), error |-> ""]

TransferInputs ==
    {[cmd |-> "TransferFunds", source_account |-> s, dest_account |-> d, amount |-> a, valid |-> TRUE] :
        s \in Accounts, d \in Accounts, a \in 1..MaxAmount}

\* examples/bank_account: the OpenAccount command
OpenAccountQuery == << [type |-> "OpenedAccount", fields |-> <<"account_id">>] >>

\* OpenAccount::default()
OpenAccountDefault == [is_open |-> FALSE]

\* OpenAccount::apply
OpenAccountApply(state, ev) ==
    IF ev.event_type = "OpenedAccount" THEN [state EXCEPT !.is_open = TRUE] ELSE state

\* OpenAccount::handle
OpenAccountHandle(state, input) ==
    IF state.is_open
    THEN [ok |-> FALSE, emit |-> <<>>, error |-> "Account already open"]
    ELSE [ok |-> TRUE, emit |-> <<OpenedAccount(input.account_id, input.initial_balance)>>,
          error |-> ""]

\* Non-negative initial balances.
OpenBalances == {0, 2}

OpenAccountInputs ==
    {[cmd |-> "OpenAccount", account_id |-> a, initial_balance |-> b, valid |-> TRUE] :
        a \in Accounts, b \in OpenBalances}

--------------------------------------------------------------------------
(* A command over SingleFieldEvents whose validate, handle and before_commit
   are left open: any result the trait allows. *)

EventA(user_id) ==
    [event_type |-> "EventA", domain_ids |-> [user_id |-> Present(user_id)],
     data |-> [payload |-> "a", decodes |-> TRUE]]
EventB(user_id) ==
    [event_type |-> "EventB", domain_ids |-> [user_id |-> Present(user_id)],
     data |-> [payload |-> "b", decodes |-> TRUE]]

\* An event of a type outside SingleFieldEvents.
EventC(user_id) ==
    [event_type |-> "EventC", domain_ids |-> [user_id |-> Present(user_id)],
     data |-> [payload |-> "c", decodes |-> TRUE]]

\* A command over SingleFieldEvents that overrides Command::query with one
\* item naming a type outside its EventSet, and whose apply keeps the
\* payloads it was given.
FoldQuery(input) ==
    << [types |-> <<"EventA", "EventB", "EventC">>,
        tags |-> <<Tag("user_id", input.user_id)>>] >>
FoldApply(state, ev) == Append(state, ev.data.payload)
FoldInputs == {[cmd |-> "Fold", user_id |-> "abc", valid |-> TRUE]}

\* An event with a domain-ID field whose name holds a colon.
EventD(tenant) ==
    [event_type |-> "EventD", domain_ids |-> ("tenant:id" :> tenant),
     data |-> [payload |-> "d", decodes |-> TRUE]]

\* A command over SingleFieldEvents whose handle may emit EventD.
ColonInputs == {[cmd |-> "Colon", user_id |-> "abc", valid |-> TRUE]}
ColonEmits(input) ==
    { <<EventA(input.user_id)>>,
      <<EventD(Present("abc"))>>, <<EventD(Absent)>>,
      <<EventA(input.user_id), EventD(Absent)>>,
      <<EventD(Present("abc")), EventB(input.user_id)>> }

GenericInputs ==
    {[cmd |-> "Generic", user_id |-> v, valid |-> TRUE] : v \in Values}
    \cup {[cmd |-> "Generic", user_id |-> "abc", valid |-> FALSE]}

GenericEmits(input) ==
    { <<>>, <<EventA(input.user_id)>>, <<EventA(input.user_id), EventB(input.user_id)>>,
      <<EventB("xyz")>> }

--------------------------------------------------------------------------
(* examples/kanban: events and the task commands *)

Tasks == {"t1", "t2"}
TaskNames == {"a", "b"}
TaskStatuses == {"Todo", "Done"}

TaskCreated(task_id, name, status) ==
    [event_type |-> "TaskCreated", domain_ids |-> [task_id |-> Present(task_id)],
     data |-> [task_id |-> task_id, name |-> name, status |-> status, decodes |-> TRUE]]

TaskRenamed(task_id, name) ==
    [event_type |-> "TaskRenamed", domain_ids |-> [task_id |-> Present(task_id)],
     data |-> [task_id |-> task_id, name |-> name, decodes |-> TRUE]]

TaskStatusChanged(task_id, status) ==
    [event_type |-> "TaskStatusChanged", domain_ids |-> [task_id |-> Present(task_id)],
     data |-> [task_id |-> task_id, status |-> status, decodes |-> TRUE]]

TaskDeleted(task_id) ==
    [event_type |-> "TaskDeleted", domain_ids |-> [task_id |-> Present(task_id)],
     data |-> [task_id |-> task_id, decodes |-> TRUE]]

KanbanCmds == {"CreateTask", "RenameTask", "ChangeTaskStatus", "DeleteTask"}

\* A read set of RenameTask without TaskDeleted.
RenameTaskQueryNoDeleted ==
    << [type |-> "TaskCreated", fields |-> <<"task_id">>],
       [type |-> "TaskRenamed", fields |-> <<"task_id">>] >>

\* rename_task::Query
RenameTaskQuery ==
    << [type |-> "TaskCreated", fields |-> <<"task_id">>],
       [type |-> "TaskRenamed", fields |-> <<"task_id">>],
       [type |-> "TaskDeleted", fields |-> <<"task_id">>] >>

\* The Query enum of each command.
KanbanQuery(input) ==
    CASE input.cmd = "CreateTask" ->
            << [type |-> "TaskCreated", fields |-> <<"task_id">>] >>
      [] input.cmd = "RenameTask" -> RenameTaskQuery
      [] input.cmd = "ChangeTaskStatus" ->
            << [type |-> "TaskCreated", fields |-> <<"task_id">>],
               [type |-> "TaskStatusChanged", fields |-> <<"task_id">>],
               [type |-> "TaskDeleted", fields |-> <<"task_id">>] >>
      [] input.cmd = "DeleteTask" ->
            << [type |-> "TaskCreated", fields |-> <<"task_id">>],
               [type |-> "TaskDeleted", fields |-> <<"task_id">>] >>

\* Self::default() of each command.
KanbanDefault(input) ==
    CASE input.cmd = "CreateTask" -> [created |-> FALSE]
      [] input.cmd = "RenameTask" -> [created |-> FALSE, deleted |-> FALSE, name |-> None]
      [] input.cmd = "ChangeTaskStatus" -> [created |-> FALSE, deleted |-> FALSE, status |-> None]
      [] input.cmd = "DeleteTask" -> [created |-> FALSE, deleted |-> FALSE]

\* apply of each command.
KanbanApply(input, state, ev) ==
    CASE input.cmd = "CreateTask" -> [state EXCEPT !.created = TRUE]
      [] input.cmd = "RenameTask" ->
            (CASE ev.event_type = "TaskCreated" ->
                     [state EXCEPT !.created = TRUE, !.name = Some(ev.data.name)]
               [] ev.event_type = "TaskRenamed" -> [state EXCEPT !.name = Some(ev.data.name)]
               [] ev.event_type = "TaskDeleted" -> [state EXCEPT !.deleted = TRUE])
      [] input.cmd = "ChangeTaskStatus" ->
            (CASE ev.event_type = "TaskCreated" ->
                     [state EXCEPT !.created = TRUE, !.status = Some(ev.data.status)]
               [] ev.event_type = "TaskStatusChanged" ->
                     [state EXCEPT !.status = Some(ev.data.status)]
               [] ev.event_type = "TaskDeleted" -> [state EXCEPT !.deleted = TRUE])
      [] input.cmd = "DeleteTask" ->
            (CASE ev.event_type = "TaskCreated" -> [state EXCEPT !.created = TRUE]
               [] ev.event_type = "TaskDeleted" -> [state EXCEPT !.deleted = TRUE])

KanbanOk(emit) == [ok |-> TRUE, emit |-> emit, error |-> ""]
KanbanErr(error) == [ok |-> FALSE, emit |-> <<>>, error |-> error]

\* handle of each command.
KanbanHandle(input, state) ==
    CASE input.cmd = "CreateTask" ->
            IF state.created THEN KanbanErr("Task already created")
            ELSE KanbanOk(<<TaskCreated(input.task_id, input.name, input.status)>>)
      [] input.cmd = "RenameTask" ->
            IF ~state.created THEN KanbanErr("Task not created")
            ELSE IF state.deleted THEN KanbanErr("Task deleted")
            ELSE IF state.name = Some(input.name) THEN KanbanOk(<<>>)
            ELSE KanbanOk(<<TaskRenamed(input.task_id, input.name)>>)
      [] input.cmd = "ChangeTaskStatus" ->
            IF ~state.created THEN KanbanErr("Task not created")
            ELSE IF state.deleted THEN KanbanErr("Task deleted")
            ELSE IF state.status = Some(input.status) THEN KanbanOk(<<>>)
            ELSE KanbanOk(<<TaskStatusChanged(input.task_id, input.status)>>)
      [] input.cmd = "DeleteTask" ->
            IF ~state.created THEN KanbanErr("Task not created")
            ELSE IF state.deleted THEN KanbanOk(<<>>)
            ELSE KanbanOk(<<TaskDeleted(input.task_id)>>)

KanbanInputs ==
    {[cmd |-> "CreateTask", task_id |-> t, name |-> "a", status |-> "Todo", valid |-> TRUE] :
        t \in Tasks}
    \cup {[cmd |-> "RenameTask", task_id |-> t, name |-> n, valid |-> TRUE] :
            t \in Tasks, n \in TaskNames}
    \cup {[cmd |-> "ChangeTaskStatus", task_id |-> t, status |-> st, valid |-> TRUE] :
            t \in Tasks, st \in TaskStatuses}
    \cup {[cmd |-> "DeleteTask", task_id |-> t, valid |-> TRUE] : t \in Tasks}

--------------------------------------------------------------------------
(* The Command trait, dispatched on the command *)

\* Command::Query::EVENT_DOMAIN_IDS
QueryEventSet(input) ==
    IF input.cmd = "TransferFunds" THEN TransferQuery
    ELSE IF input.cmd = "OpenAccount" THEN OpenAccountQuery
    ELSE IF input.cmd \in KanbanCmds THEN KanbanQuery(input)
    ELSE SingleFieldEvents

\* CommandInput::domain_id_bindings
domain_id_bindings(input) ==
    IF input.cmd = "TransferFunds"
    THEN "account_id" :> <<input.source_account, input.dest_account>>
    ELSE IF input.cmd = "OpenAccount"
    THEN "account_id" :> <<input.account_id>>
    ELSE IF input.cmd \in KanbanCmds
    THEN "task_id" :> <<input.task_id>>
    ELSE "user_id" :> <<input.user_id>>

\* A validate that accepts every input.
validateAll(input) == TRUE

\* Command::validate
validate(input) == input.valid

\* The fold reports a type outside the set as a decoding error.
from_eventStrict(input, ev) ==
    IF ev.event_type \notin {QueryEventSet(input)[i].type : i \in DOMAIN QueryEventSet(input)}
    THEN "Err"
    ELSE IF ~ev.data.decodes THEN "Err" ELSE "Ok"

\* Command::query (the default, or the command's own).  Matching does not depend on the order of the
\* items or of their tags, so one iteration order stands for all.
query(input) ==
    LET edi == QueryEventSet(input)
        b == domain_id_bindings(input)
    IN IF input.cmd = "Fold" THEN FoldQuery(input)
       ELSE build_query_items(edi, b,
                              CHOOSE o \in GroupOrders(edi, b) : TRUE,
                              CHOOSE o \in FieldOrders(edi, b) : TRUE)

\* EventSet::from_event: "None" for a type outside the set, "Err" when the
\* payload does not decode, "Ok" otherwise.
from_event(input, ev) ==
    IF ev.event_type \notin {QueryEventSet(input)[i].type : i \in DOMAIN QueryEventSet(input)}
    THEN "None"
    ELSE IF ~ev.data.decodes THEN "Err" ELSE "Ok"

\* Self::default()
default(input) ==
    IF input.cmd = "TransferFunds" THEN TransferDefault
    ELSE IF input.cmd = "OpenAccount" THEN OpenAccountDefault
    ELSE IF input.cmd \in KanbanCmds THEN KanbanDefault(input)
    ELSE <<>>

\* Command::apply
apply(input, state, ev) ==
    IF input.cmd = "TransferFunds" THEN TransferApply(state, ev)
    ELSE IF input.cmd = "OpenAccount" THEN OpenAccountApply(state, ev)
    ELSE IF input.cmd \in KanbanCmds THEN KanbanApply(input, state, ev)
    ELSE IF input.cmd = "Fold" THEN FoldApply(state, ev)
    ELSE state

\* Command::handle: the results it may return.
HandleResults(input, state) ==
    IF input.cmd = "TransferFunds"
    THEN {TransferHandle(state, input)}
    ELSE IF input.cmd = "OpenAccount"
    THEN {OpenAccountHandle(state, input)}
    ELSE IF input.cmd \in KanbanCmds
    THEN {KanbanHandle(input, state)}
    ELSE IF input.cmd = "Colon"
    THEN {[ok |-> TRUE, emit |-> em, error |-> ""] : em \in ColonEmits(input)}
    ELSE {[ok |-> FALSE, emit |-> <<>>, error |-> "rejected"]}
         \cup {[ok |-> TRUE, emit |-> em, error |-> ""] : em \in GenericEmits(input)}

\* Command::before_commit: the results it may return (the default is Ok).
BeforeCommitResults(input) ==
    IF input.cmd \in {"TransferFunds", "OpenAccount"} \cup KanbanCmds THEN {TRUE} ELSE BOOLEAN

\* CommandContext::new() of executor e: the fresh Uuid is e
CommandContext(e) == [command_id |-> e, correlation_id |-> e, triggered_by |-> None]

\* CommandContext::with_correlation_id
with_correlation_id(e, correlation_id) ==
    [command_id |-> e, correlation_id |-> correlation_id, triggered_by |-> None]

\* CommandContext::triggered_by_event
triggered_by_event(e, event_id, correlation_id) ==
    [command_id |-> e, correlation_id |-> correlation_id, triggered_by |-> Some(event_id)]

\* An envelope whose causation_id is the correlation_id.
into_event_envelopeCorrelation(ctx, timestamp) ==
    [timestamp |-> timestamp, correlation_id |-> ctx.correlation_id,
     causation_id |-> ctx.correlation_id, triggered_by |-> ctx.triggered_by]

\* CommandContext::into_event_envelope
into_event_envelope(ctx, timestamp) ==
    [timestamp |-> timestamp, correlation_id |-> ctx.correlation_id,
     causation_id |-> ctx.command_id, triggered_by |-> ctx.triggered_by]

\* encode_to_dcb_event: the DCBEvent whose data is the StoredEventData of
\* the envelope and the event's payload (encode_with_envelope).
encode_to_dcb_event(ev, envelope) ==
    [event_type |-> into_dcb_event(ev).event_type,
     tags |-> into_dcb_event(ev).tags,
     data |-> ev.data,
     stored |-> TRUE,
     timestamp |-> envelope.timestamp,
     correlation_id |-> envelope.correlation_id,
     causation_id |-> envelope.causation_id,
     triggered_by |-> envelope.triggered_by]

\* The emitted events encoded last to first.
encode_eventsReversed(emit, envelope) ==
    [i \in DOMAIN emit |-> encode_to_dcb_event(emit[Len(emit) + 1 - i], envelope)]

\* emit.into_events().into_iter().map(encode_to_dcb_event).collect()
encode_events(emit, envelope) ==
    [i \in DOMAIN emit |-> encode_to_dcb_event(emit[i], envelope)]

\* Emit::is_empty that never reports an empty Emit.
is_emptyNever(emit) == FALSE

\* Emit::is_empty (of the encoded events: append_events.is_empty())
is_empty(emit) == emit = <<>>

\* An error that is dropped instead of returned.
TryIgnore(ok) == FALSE

\* `?`: an Err returns from the execution
Try(ok) == ~ok

--------------------------------------------------------------------------
(* The DCB event store (external; its contract) *)

\* head(): None for an empty store
StoreHead(l) == IF l = <<>> THEN None ELSE Some(Len(l))

\* read(query, start = 0): the matching events in position order
StoreRead(l, q) ==
    SelectSeq([p \in DOMAIN l |-> [position |-> p, event |-> l[p]]],
              LAMBDA se : QueryMatches(q, se.event))

\* The append condition fails when an event after `after` matches the query.
ConditionFails(l, condition) ==
    \E p \in DOMAIN l :
        /\ condition.after # None => p > condition.after[1]
        /\ QueryMatches(condition.fail_if_events_match, l[p])

\* A stream that repeats one of its items.
Repeat(events, k) ==
    IF k = 0 THEN events ELSE SubSeq(events, 1, k) \o SubSeq(events, k, Len(events))

\* append(events, condition): all the events or none.  Returns the new log.
append(l, events, condition) ==
    IF condition # None /\ ConditionFails(l, condition[1])
    THEN [ok |-> FALSE, log |-> l]
    ELSE [ok |-> TRUE, log |-> l \o events]

--------------------------------------------------------------------------
(* crates/sdk/src/command.rs: Command::execute_with *)

IdleExec ==
    [pc |-> "idle", input |-> [cmd |-> ""], ctx |-> CommandContext(0),
     query |-> <<>>, head |-> None, applied |-> <<>>,
     state |-> <<>>, emit |-> <<>>, append_events |-> <<>>, result |-> [kind |-> ""],
     first |-> 0, racing |-> {},
     \* the history of the execution
     trace |-> <<>>,        \* the calls made, in order
     reads |-> <<>>,        \* the reads of the store: the query passed, the head returned
     appends |-> <<>>,      \* the append calls: the events and the condition passed
     handled |-> <<>>,      \* the results handle returned
     hooks |-> <<>>,        \* the Emits passed to before_commit, and its results
     skipped |-> <<>>,      \* the positions of the events the fold skipped
     applied_ts |-> <<>>,   \* the EventMeta timestamps passed to apply
     log_before |-> <<>>,   \* the store when the execution started
     timestamp |-> 0]

\* The fold over the events the read returned: the envelope is decoded
\* first, then the event; an Err stops the fold.
RECURSIVE Fold(_, _, _)
Fold(input, acc, events) ==
    IF events = <<>> THEN acc
    ELSE LET se == Head(events)
             decoded == from_event(input, se.event)
         IN  IF ~se.event.stored \/ decoded = "Err" THEN [acc EXCEPT !.err = TRUE]
             ELSE IF decoded = "None"
             THEN Fold(input, [acc EXCEPT !.skipped = Append(@, se.position)], Tail(events))
             ELSE Fold(input,
                       [err |-> FALSE,
                        state |-> apply(input, acc.state, se.event),
                        applied |-> Append(acc.applied, se.position),
                        skipped |-> acc.skipped,
                        applied_ts |-> Append(acc.applied_ts, se.event.timestamp)],
                       Tail(events))

Return(x, result) == [x EXCEPT !.pc = "done", !.result = result]

\* validate fails: ExecuteError::Validation
ExecValidationFails(e, input, ctx) ==
    /\ ex[e].pc = "idle"
    /\ ~validate(input)
    /\ ex' = [ex EXCEPT ![e] =
                Return([@ EXCEPT !.input = input, !.ctx = ctx,
                                 !.log_before = log, !.trace = <<"validate">>],
                       [kind |-> "Validation"])]
    /\ UNCHANGED <<log, clock>>

\* handle returned Ok: before_commit is awaited with the Emit, whatever
\* it holds, only when it is not empty.
AwaitBeforeCommitNonEmpty(x, emit) ==
    IF emit = <<>>
    THEN Return([x EXCEPT !.emit = emit],
                [kind |-> "Ok", position |-> x.head, events |-> <<>>])
    ELSE [x EXCEPT !.pc = "before_commit", !.emit = emit]

\* handle returned Ok: before_commit is awaited with the Emit.
AwaitBeforeCommit(x, emit) == [x EXCEPT !.pc = "before_commit", !.emit = emit]

\* execute_with(store, input, ctx): validate, query, read, fold and handle,
\* up to the await of before_commit.  `q` is the query passed to the read, `events` and `head` are what
\* collect_with_head returned.
ExecuteRead(e, input, ctx, q, events, head) ==
    /\ ex[e].pc = "idle"
    /\ validate(input)
    /\ LET folded == Fold(input, [err |-> FALSE, state |-> default(input), applied |-> <<>>,
                                  skipped |-> <<>>, applied_ts |-> <<>>],
                          events)
           timestamp == clock[e]
           called == <<"validate", "query", "read">>
                     \o [i \in DOMAIN folded.applied |-> "apply"]
           x == [ex[e] EXCEPT !.input = input, !.ctx = ctx,
                              !.query = q, !.head = head,
                              !.reads = <<[query |-> q, head |-> head]>>,
                              !.log_before = log,
                              !.applied = folded.applied, !.skipped = folded.skipped,
                              !.applied_ts = folded.applied_ts, !.state = folded.state]
           y == [x EXCEPT !.timestamp = timestamp, !.trace = called \o <<"now", "handle">>]
       IN  IF folded.err
           THEN ex' = [ex EXCEPT ![e] = Return([x EXCEPT !.trace = called],
                                               [kind |-> "Serialization"])]
           ELSE \E h \in HandleResults(input, folded.state) :
                   LET z == [y EXCEPT !.handled = <<h>>]
                   IN  IF Try(h.ok)
                       THEN ex' = [ex EXCEPT ![e] = Return(z, [kind |-> "Command"])]
                       ELSE ex' = [ex EXCEPT ![e] = AwaitBeforeCommit(z, h.emit)]
    /\ UNCHANGED <<log, clock>>

\* The store's read: a snapshot of the matching events and the head.
ExecRead(e, input, ctx) ==
    LET q == query(input)
    IN  ExecuteRead(e, input, ctx, q, StoreRead(log, q), StoreHead(log))

\* before_commit returned; the emitted events are encoded, which panics on
\* a domain-ID name with a colon; an empty Emit returns without an append.
ExecBeforeCommit(e) ==
    /\ ex[e].pc = "before_commit"
    /\ \E ok \in BeforeCommitResults(ex[e].input) :
          LET x == [ex[e] EXCEPT !.trace = Append(@, "before_commit"),
                                 !.hooks = Append(@, [emit |-> ex[e].emit, ok |-> ok])]
              envelope == into_event_envelope(x.ctx, x.timestamp)
              append_events == encode_events(x.emit, envelope)
          IN  IF Try(ok)
              THEN ex' = [ex EXCEPT ![e] = Return(x, [kind |-> "Command"])]
              ELSE IF \E i \in DOMAIN x.emit : into_dcb_event_panics(x.emit[i])
              THEN ex' = [ex EXCEPT ![e] = Return(x, [kind |-> "Panic"])]
              ELSE IF is_empty(append_events)
              THEN ex' = [ex EXCEPT ![e] =
                            Return(x, [kind |-> "Ok", position |-> x.head, events |-> <<>>])]
              ELSE ex' = [ex EXCEPT ![e] = [x EXCEPT !.pc = "append",
                                                     !.append_events = append_events]]
    /\ UNCHANGED <<log, clock>>

\* A condition that does not name the head of the read.
AppendConditionNoAfter(x) == [fail_if_events_match |-> x.query, after |-> None]

\* DCBAppendCondition { fail_if_events_match: query, after: head }
AppendCondition(x) == [fail_if_events_match |-> x.query, after |-> x.head]

\* store.append(append_events, Some(DCBAppendCondition { query, after: head }))
AppendCallNoCondition(l, x) == append(l, x.append_events, None)

\* The condition is taken after the store's head at the time of the append.
AppendCallCurrentHead(l, x) ==
    append(l, x.append_events,
           Some([fail_if_events_match |-> x.query, after |-> StoreHead(l)]))

AppendCall(l, x) == append(l, x.append_events, Some(AppendCondition(x)))

\* The append returned: Ok(new_position) or the store's integrity error.
ExecAppend(e, maxLog) ==
    /\ ex[e].pc = "append"
    /\ Len(log) + Len(ex[e].append_events) <= maxLog
    /\ LET x == [ex[e] EXCEPT !.racing = {o \in Execs \ {e} :
                                            ex[o].pc \in {"before_commit", "append"}},
                              !.trace = Append(@, "append"),
                              !.appends = Append(@, [events |-> ex[e].append_events,
                                                     condition |-> AppendCondition(ex[e])])]
           r == AppendCall(log, x)
       IN  /\ log' = r.log
           /\ IF r.ok
              THEN ex' = [ex EXCEPT ![e] =
                            Return([x EXCEPT !.first = Len(log) + 1],
                                   [kind |-> "Ok", position |-> Some(Len(r.log)),
                                    events |-> x.append_events])]
              ELSE ex' = [ex EXCEPT ![e] = Return(x, [kind |-> "Integrity"])]
    /\ UNCHANGED clock

\* Utc::now() of executor e moves on.
ClockTick(e) ==
    /\ clock[e] < MaxClock
    /\ clock' = [clock EXCEPT ![e] = @ + 1]
    /\ UNCHANGED <<log, ex>>

\* The envelope of an event written by another writer of the store (its
\* ids are 0).
ForeignEnvelope(timestamp) ==
    [timestamp |-> timestamp, correlation_id |-> 0, causation_id |-> 0,
     triggered_by |-> None]

\* Another writer of the store appends one event without a condition.
ForeignEvents == {EventA("abc"), [EventA("abc") EXCEPT !.data.decodes = FALSE]}

ForeignAppend(ev) ==
    /\ Len(log) < MaxLog
    /\ Cardinality({p \in DOMAIN log : log[p].causation_id = 0}) < MaxForeign
    /\ log' = append(log, <<encode_to_dcb_event(ev, ForeignEnvelope(0))>>, None).log
    /\ UNCHANGED <<ex, clock>>

--------------------------------------------------------------------------
(* crates/sdk/src/command.rs: Command::execute_blocking_with *)

\* A before_commit future that is taken as finished with Ok whether or not
\* it is ready.
now_or_neverAlways(ready, output) == Some(TRUE)

\* FutureExt::now_or_never: the output of a future that is ready at its
\* first poll, None when it would suspend.
now_or_never(ready, output) == IF ready THEN Some(output) ELSE None

\* execute_blocking_with(store, input, ctx) up to the call of store.append:
\* validate, query, read, fold, handle, before_commit polled once, encoding.
\* `h` is what handle returns, `ready` and `ok` are the before_commit future.
ExecuteBlocking(input, ctx, h, ready, ok) ==
    LET q == query(input)
        events == StoreRead(blog, q)
        head == StoreHead(blog)
        folded == Fold(input, [err |-> FALSE, state |-> default(input), applied |-> <<>>,
                               skipped |-> <<>>, applied_ts |-> <<>>],
                       events)
        called == <<"validate", "query", "read">>
                  \o [i \in DOMAIN folded.applied |-> "apply"]
        v == [bx EXCEPT !.input = input, !.ctx = ctx, !.log_before = blog]
        x == [v EXCEPT !.query = q, !.head = head,
                       !.reads = <<[query |-> q, head |-> head]>>,
                       !.applied = folded.applied, !.skipped = folded.skipped,
                       !.applied_ts = folded.applied_ts, !.state = folded.state]
        y == [x EXCEPT !.timestamp = clock[1], !.trace = called \o <<"now", "handle">>,
                       !.handled = <<h>>]
        polled == now_or_never(ready, ok)
        z == [y EXCEPT !.emit = h.emit, !.trace = Append(@, "before_commit"),
                       !.hooks = <<[emit |-> h.emit, ok |-> ok]>>]
        append_events == encode_events(z.emit, into_event_envelope(ctx, z.timestamp))
    IN  IF ~validate(input)
        THEN Return([v EXCEPT !.trace = <<"validate">>], [kind |-> "Validation"])
        ELSE IF folded.err
        THEN Return([x EXCEPT !.trace = called], [kind |-> "Serialization"])
        ELSE IF Try(h.ok)
        THEN Return(y, [kind |-> "Command"])
        ELSE IF polled = None
        THEN Return([y EXCEPT !.emit = h.emit, !.trace = Append(@, "before_commit")],
                    [kind |-> "Panic"])
        ELSE IF Try(polled[1])
        THEN Return(z, [kind |-> "Command"])
        ELSE IF \E i \in DOMAIN z.emit : into_dcb_event_panics(z.emit[i])
        THEN Return(z, [kind |-> "Panic"])
        ELSE IF is_empty(append_events)
        THEN Return(z, [kind |-> "Ok", position |-> head, events |-> <<>>])
        ELSE [z EXCEPT !.pc = "append", !.append_events = append_events]

\* The blocking call starts.
BlockingRead(input, ctx, h, ready, ok) ==
    /\ bx.pc = "idle"
    /\ bx' = ExecuteBlocking(input, ctx, h, ready, ok)
    /\ UNCHANGED blog

\* store.append of the blocking call returned.
BlockingAppend(maxLog) ==
    /\ bx.pc = "append"
    /\ Len(blog) + Len(bx.append_events) <= maxLog
    /\ LET x == [bx EXCEPT !.trace = Append(@, "append"),
                           !.appends = Append(@, [events |-> bx.append_events,
                                                  condition |-> AppendCondition(bx)])]
           r == AppendCall(blog, x)
       IN  /\ blog' = r.log
           /\ IF r.ok
              THEN bx' = Return([x EXCEPT !.first = Len(blog) + 1],
                                [kind |-> "Ok", position |-> Some(Len(r.log)),
                                 events |-> x.append_events])
              ELSE bx' = Return(x, [kind |-> "Integrity"])

--------------------------------------------------------------------------
(* crates/postgres/src/lib.rs: ProjectionRunner, CheckpointTable, FlushConfig *)

VARIABLES
    events,    \* the event store the projections read: the kind of each event
    now,       \* the clock of Instant::now()
    row,       \* the committed checkpoint row of the projection_id (Option)
    rowLock,   \* the runner whose open transaction wrote the row (Option)
    durable,   \* the committed handler writes: <<runner, position>>
    saved,     \* the committed checkpoint changes, in commit order
    faults,    \* the failures of the pool, the handler and the commit so far
    runner     \* the ProjectionRunners of the projection_id

projVars == <<events, now, row, rowLock, durable, saved, faults, runner>>

MaxEvents == 2   \* events in the projections' store
MaxTime == 1     \* ticks of the clock
MaxFaults == 1   \* failures of the pool, the handler and the commit

Runners == {"r1", "r2"}

\* An event of a type of H::Query, one of another type, one whose payload
\* does not deserialize.
EventKinds == {"event", "other", "bad"}

\* FlushConfig::default() for live events; the replay intervals are set
\* through the builder.
live_events_interval == 1
live_time_interval == 1
replay_events_interval == 2
replay_time_interval == 1

\* A strict comparison: equal positions are not below.
OptLt(a, b) == IF b = None THEN FALSE ELSE IF a = None THEN TRUE ELSE a[1] < b[1]

\* Option<u64>'s `<=`: None is below every Some.
OptLe(a, b) == IF a = None THEN TRUE ELSE IF b = None THEN FALSE ELSE a[1] <= b[1]

\* The event intervals alone: the time since the last flush is not looked at.
should_flushEventsOnly(events_since_flush, last_flushed_at, is_replaying) ==
    IF is_replaying
    THEN events_since_flush >= replay_events_interval
    ELSE events_since_flush >= live_events_interval

\* The replay intervals are applied to live events as well.
should_flushReplay(events_since_flush, last_flushed_at, is_replaying) ==
    events_since_flush >= replay_events_interval
    \/ now - last_flushed_at >= replay_time_interval

\* FlushConfig::should_flush
should_flush(events_since_flush, last_flushed_at, is_replaying) ==
    IF is_replaying
    THEN events_since_flush >= replay_events_interval
         \/ now - last_flushed_at >= replay_time_interval
    ELSE events_since_flush >= live_events_interval
         \/ now - last_flushed_at >= live_time_interval

\* CheckpointTable::load
load(committed) == committed

\* An UPDATE that compares nothing and an INSERT that overwrites.
saveNoCompare(committed, expected_position, position) == [ok |-> TRUE, error |-> ""]

\* An INSERT that overwrites an existing row; the UPDATE still compares.
saveUpsert(committed, expected_position, position) ==
    IF expected_position = None \/ committed = expected_position
    THEN [ok |-> TRUE, error |-> ""]
    ELSE [ok |-> FALSE, error |-> "Err(RowNotFound)"]

\* CheckpointTable::save against the committed row: INSERT when nothing is
\* expected, else UPDATE ... WHERE position = expected.
save(committed, expected_position, position) ==
    IF expected_position = None
    THEN IF committed # None
         THEN [ok |-> FALSE, error |-> "Err(DuplicateKey)"]
         ELSE [ok |-> TRUE, error |-> ""]
    ELSE IF committed = expected_position
         THEN [ok |-> TRUE, error |-> ""]
         ELSE [ok |-> FALSE, error |-> "Err(RowNotFound)"]

\* The statement of save waits for the open transaction that wrote the row.
SaveBlocked(r, expected_position) ==
    /\ rowLock # None
    /\ rowLock # Some(r)
    /\ (expected_position = None \/ row # None)

\* event_store.head()
ProjHead == IF events = <<>> THEN None ELSE Some(Len(events))

\* A start equal to the checkpoint itself.
ReadStartSame(position) == position

\* The start handed to event_store.read: position.map(|pos| pos + 1)
ReadStart(position) == IF position = None THEN None ELSE Some(position[1] + 1)

\* The handler is handed the position of the runner, not of the event.
StoredEventStale(x, pos) == IF x.position = None THEN pos ELSE x.position[1]

\* StoredEvent { position: event.position, .. }
StoredEvent(x, pos) == pos

NewRunner ==
    [pc |-> "new", head |-> None, cursor |-> 1, transaction |-> None,
     position |-> None, last_flushed_position |-> None,
     events_since_flush |-> 0, last_flushed_at |-> 0,
     fl_position |-> 0, fl_tx |-> {}, fl_row |-> None, is_replaying |-> FALSE,
     result |-> "", failed_at |-> "",
     call |-> "",   \* what the current next() got: "event", "timeout", "end"
     erred |-> FALSE,  \* a next() of this runner has returned an error
     loaded |-> None, start |-> None, handled |-> <<>>, trace |-> <<>>,
     first_save |-> <<>>, conflict |-> FALSE,
     \* the last call of flush_if_necessary within the current next()
     fin |-> [called |-> FALSE, position |-> None, head |-> None,
              events_since_flush |-> 0, elapsed |-> 0, flush |-> FALSE],
     pre |-> [events_since_flush |-> 0, last_flushed_position |-> None]]

\* next() returned
ReturnNext(x, result) ==
    [x EXCEPT !.pc = "idle", !.result = result,
              !.erred = @ \/ result \notin {"Ok(true)", "Ok(false)"}]

\* A failed flush that nevertheless resets the window.
FlushErrorReset(x, step, error) ==
    [x EXCEPT !.pc = "idle", !.result = error, !.failed_at = step, !.erred = TRUE,
              !.events_since_flush = 0,
              !.last_flushed_position = Some(x.fl_position)]

\* A step of flush returned an error: `?` returns it through next(), the
\* local transaction is dropped.
FlushError(x, step, error) ==
    [x EXCEPT !.pc = "idle", !.result = error, !.failed_at = step, !.erred = TRUE]

\* The steps of flush with post_commit ahead of the commit.
FlushStepAfterEarlyPostCommit(step) ==
    CASE step = "save" -> "handler_flush"
      [] step = "handler_flush" -> "post_commit"
      [] step = "post_commit" -> "commit"
      [] step = "commit" -> "done"

\* The steps of flush in their order.
FlushStepAfter(step) ==
    CASE step = "save" -> "handler_flush"
      [] step = "handler_flush" -> "commit"
      [] step = "commit" -> "post_commit"
      [] step = "post_commit" -> "done"

\* The end of flush: the window is reset.
FlushDone(x) ==
    ReturnNext([x EXCEPT !.events_since_flush = 0,
                         !.last_flushed_at = now,
                         !.last_flushed_position = Some(x.fl_position)],
               "Ok(true)")

\* A step of flush succeeded.
Advance(x, step) ==
    LET y == [x EXCEPT !.trace = Append(@, step)]
    IN  IF FlushStepAfter(step) = "done" THEN FlushDone(y)
        ELSE [y EXCEPT !.pc = FlushStepAfter(step)]

\* A flush that leaves the transaction in the runner.
flushKeepsTransaction(x, is_replaying) ==
    IF x.position = None THEN ReturnNext(x, "Ok(true)")
    ELSE IF x.transaction = None
    THEN ReturnNext([x EXCEPT !.position = None], "Ok(true)")
    ELSE [x EXCEPT !.position = None,
                   !.fl_position = x.position[1], !.fl_tx = x.transaction[1],
                   !.fl_row = None, !.is_replaying = is_replaying,
                   !.trace = <<>>, !.conflict = FALSE,
                   !.pre = [events_since_flush |-> x.events_since_flush,
                            last_flushed_position |-> x.last_flushed_position],
                   !.pc = "save"]

\* flush, up to its first await
flush(x, is_replaying) ==
    IF x.position = None THEN ReturnNext(x, "Ok(true)")
    ELSE IF x.transaction = None
    THEN ReturnNext([x EXCEPT !.position = None], "Ok(true)")
    ELSE [x EXCEPT !.position = None, !.transaction = None,
                   !.fl_position = x.position[1], !.fl_tx = x.transaction[1],
                   !.fl_row = None, !.is_replaying = is_replaying,
                   !.trace = <<>>, !.conflict = FALSE,
                   !.pre = [events_since_flush |-> x.events_since_flush,
                            last_flushed_position |-> x.last_flushed_position],
                   !.pc = "save"]

\* flush_if_necessary
flush_if_necessary(x) ==
    LET is_replaying == OptLe(x.position, x.head)
        flushes == should_flush(x.events_since_flush, x.last_flushed_at, is_replaying)
        y == [x EXCEPT !.fin = [called |-> TRUE, position |-> x.position, head |-> x.head,
                                events_since_flush |-> x.events_since_flush,
                                elapsed |-> now - x.last_flushed_at, flush |-> flushes]]
    IN  IF flushes
        THEN flush(y, is_replaying)
        ELSE ReturnNext(y, "Ok(true)")

\* A call of next() starts.
Called(x) == [x EXCEPT !.result = "", !.failed_at = "", !.conflict = FALSE,
                       !.fin = NewRunner.fin]

\* ProjectionRunner::new: load, head, read(query, start, .., live)
Build(r) ==
    /\ runner[r].pc = "new"
    /\ LET position == load(row)
           start == ReadStart(position)
       IN  runner' = [runner EXCEPT ![r] =
                        [@ EXCEPT !.pc = "idle", !.head = ProjHead,
                                  !.cursor = IF start = None THEN 1 ELSE start[1],
                                  !.position = position,
                                  !.last_flushed_position = position,
                                  !.last_flushed_at = now,
                                  !.loaded = position, !.start = start]]
    /\ UNCHANGED <<events, now, row, rowLock, durable, saved, faults>>

\* A next() that returns at an event outside the set without counting it.
NextEventSkipUncounted(r, begin_ok, handle_ok) ==
    /\ runner[r].pc = "idle"
    /\ runner[r].cursor <= Len(events)
    /\ LET pos == runner[r].cursor
           kind == events[pos]
           x == [Called(runner[r]) EXCEPT !.cursor = pos + 1, !.call = "event"]
           opened == IF x.transaction = None THEN [x EXCEPT !.transaction = Some({})] ELSE x
           passed == [opened EXCEPT !.handled = Append(@, StoredEvent(x, pos))]
           written == [passed EXCEPT !.transaction =
                          Some(@[1] \cup {StoredEvent(x, pos)})]
           counted(y) == [y EXCEPT !.position = Some(pos),
                                   !.events_since_flush = @ + 1]
           failed == \/ x.transaction = None /\ ~begin_ok
                     \/ ~(x.transaction = None /\ ~begin_ok) /\ kind = "event" /\ ~handle_ok
       IN  /\ failed => faults < MaxFaults
           /\ faults' = IF failed THEN faults + 1 ELSE faults
           /\ runner' = [runner EXCEPT ![r] =
              IF x.transaction = None /\ ~begin_ok THEN ReturnNext(x, "Err(Sqlx)")
              ELSE IF kind = "bad" THEN ReturnNext(opened, "Err(Deserialize)")
              ELSE IF kind = "other" THEN ReturnNext(opened, "Ok(true)")
              ELSE IF ~handle_ok THEN ReturnNext(passed, "Err(Handler)")
              ELSE flush_if_necessary(counted(written))]
    /\ UNCHANGED <<events, now, row, rowLock, durable, saved>>

\* next(): the stream yields its next event; begin, decode, handle,
\* flush_if_necessary up to the first await of flush.
NextEvent(r, begin_ok, handle_ok) ==
    /\ runner[r].pc = "idle"
    /\ runner[r].cursor <= Len(events)
    /\ LET pos == runner[r].cursor
           kind == events[pos]
           x == [Called(runner[r]) EXCEPT !.cursor = pos + 1, !.call = "event"]
           opened == IF x.transaction = None THEN [x EXCEPT !.transaction = Some({})] ELSE x
           passed == [opened EXCEPT !.handled = Append(@, StoredEvent(x, pos))]
           written == [passed EXCEPT !.transaction =
                          Some(@[1] \cup {StoredEvent(x, pos)})]
           counted(y) == [y EXCEPT !.position = Some(pos),
                                   !.events_since_flush = @ + 1]
           failed == \/ x.transaction = None /\ ~begin_ok
                     \/ ~(x.transaction = None /\ ~begin_ok) /\ kind = "event" /\ ~handle_ok
       IN  /\ failed => faults < MaxFaults
           /\ faults' = IF failed THEN faults + 1 ELSE faults
           /\ runner' = [runner EXCEPT ![r] =
              IF x.transaction = None /\ ~begin_ok THEN ReturnNext(x, "Err(Sqlx)")
              ELSE IF kind = "bad" THEN ReturnNext(opened, "Err(Deserialize)")
              ELSE IF kind = "other" THEN flush_if_necessary(counted(opened))
              ELSE IF ~handle_ok THEN ReturnNext(passed, "Err(Handler)")
              ELSE flush_if_necessary(counted(written))]
    /\ UNCHANGED <<events, now, row, rowLock, durable, saved>>

\* A next() that awaits under the deadline whether or not events are pending.
NextTimeoutAlways(r) ==
    /\ runner[r].pc = "idle"
    /\ LET x == runner[r]
           interval == IF OptLe(x.position, x.head)
                       THEN replay_time_interval ELSE live_time_interval
       IN  /\ now >= x.last_flushed_at + interval
           /\ runner' = [runner EXCEPT ![r] =
                          flush_if_necessary([Called(x) EXCEPT !.call = "timeout"])]
    /\ UNCHANGED <<events, now, row, rowLock, durable, saved, faults>>

\* next(): the deadline of timeout_at passes before the stream yields.
NextTimeout(r) ==
    /\ runner[r].pc = "idle"
    /\ runner[r].events_since_flush > 0
    /\ LET x == runner[r]
           interval == IF OptLe(x.position, x.head)
                       THEN replay_time_interval ELSE live_time_interval
       IN  /\ now >= x.last_flushed_at + interval
           /\ runner' = [runner EXCEPT ![r] =
                          flush_if_necessary([Called(x) EXCEPT !.call = "timeout"])]
    /\ UNCHANGED <<events, now, row, rowLock, durable, saved, faults>>

\* next(): the stream ended, Ok(false)
NextStreamEnd(r) ==
    /\ runner[r].pc = "idle"
    /\ runner' = [runner EXCEPT ![r] = [Called(@) EXCEPT !.pc = "ended", !.call = "end",
                                                          !.result = "Ok(false)"]]
    /\ UNCHANGED <<events, now, row, rowLock, durable, saved, faults>>

\* flush: checkpoint.save(&mut tx, self.last_flushed_position, position)
Save(r) ==
    /\ runner[r].pc = "save"
    /\ ~SaveBlocked(r, runner[r].last_flushed_position)
    /\ LET x == runner[r]
           expected == x.last_flushed_position
           res == save(row, expected, x.fl_position)
           y == [x EXCEPT !.first_save =
                               IF @ = <<>>
                               THEN <<[expected |-> expected, insert |-> expected = None]>>
                               ELSE @,
                          !.conflict = \E i \in DOMAIN saved :
                                          /\ saved[i].runner # r
                                          /\ saved[i].expected = expected]
       IN  IF res.ok
           THEN /\ runner' = [runner EXCEPT ![r] =
                                Advance([y EXCEPT !.fl_row = Some(x.fl_position)], "save")]
                /\ rowLock' = Some(r)
           ELSE /\ runner' = [runner EXCEPT ![r] =
                                FlushError([y EXCEPT !.trace = Append(@, "save")],
                                           "save", res.error)]
                /\ rowLock' = IF rowLock = Some(r) THEN None ELSE rowLock
    /\ UNCHANGED <<events, now, row, durable, saved, faults>>

\* flush: handler.flush(&mut tx, is_replaying)
HandlerFlush(r, ok) ==
    /\ runner[r].pc = "handler_flush"
    /\ ~ok => faults < MaxFaults
    /\ faults' = IF ok THEN faults ELSE faults + 1
    /\ IF ok
       THEN /\ runner' = [runner EXCEPT ![r] = Advance(@, "handler_flush")]
            /\ UNCHANGED rowLock
       ELSE /\ runner' = [runner EXCEPT ![r] =
                            FlushError([@ EXCEPT !.trace = Append(@, "handler_flush")],
                                       "handler_flush", "Err(Handler)")]
            /\ rowLock' = IF rowLock = Some(r) THEN None ELSE rowLock
    /\ UNCHANGED <<events, now, row, durable, saved>>

\* flush: tx.commit()
Commit(r, ok) ==
    /\ runner[r].pc = "commit"
    /\ ~ok => faults < MaxFaults
    /\ faults' = IF ok THEN faults ELSE faults + 1
    /\ LET x == runner[r]
       IN  IF ok
           THEN /\ runner' = [runner EXCEPT ![r] = Advance(x, "commit")]
                /\ row' = IF x.fl_row # None THEN x.fl_row ELSE row
                /\ durable' = durable \cup {<<r, p>> : p \in x.fl_tx}
                /\ saved' = IF x.fl_row # None
                            THEN Append(saved, [runner |-> r,
                                                expected |-> x.last_flushed_position,
                                                position |-> x.fl_row[1]])
                            ELSE saved
           ELSE /\ runner' = [runner EXCEPT ![r] =
                                FlushError([x EXCEPT !.trace = Append(@, "commit")],
                                           "commit", "Err(Sqlx)")]
                /\ UNCHANGED <<row, durable, saved>>
    /\ rowLock' = IF rowLock = Some(r) THEN None ELSE rowLock
    /\ UNCHANGED <<events, now>>

\* flush: handler.post_commit(is_replaying)
PostCommit(r, ok) ==
    /\ runner[r].pc = "post_commit"
    /\ ~ok => faults < MaxFaults
    /\ faults' = IF ok THEN faults ELSE faults + 1
    /\ IF ok
       THEN runner' = [runner EXCEPT ![r] = Advance(@, "post_commit")]
       ELSE runner' = [runner EXCEPT ![r] =
                          FlushError([@ EXCEPT !.trace = Append(@, "post_commit")],
                                     "post_commit", "Err(Handler)")]
    /\ UNCHANGED <<events, now, row, rowLock, durable, saved>>

\* A writer appends an event to the store.
StoreAppend(kind) ==
    /\ Len(events) < MaxEvents
    /\ events' = Append(events, kind)
    /\ UNCHANGED <<now, row, rowLock, durable, saved, faults, runner>>

\* Time passes.
Tick ==
    /\ now < MaxTime
    /\ now' = now + 1
    /\ UNCHANGED <<events, row, rowLock, durable, saved, faults, runner>>

--------------------------------------------------------------------------
(* Specifications *)

vars == <<planVars, execVars, projVars, blkVars>>

PlanIdle ==
    /\ plSet = "" /\ plBindings = <<>> /\ plEvent = [event_type |-> ""]
    /\ plItems = <<>> /\ plAgain = None
    /\ plDcb = [event_type |-> "", tags |-> {}] /\ plPc = "off"

ExecIdle == log = <<>> /\ ex = [e \in Execs |-> IdleExec] /\ clock = [e \in Execs |-> 0]

BlkIdle == blog = <<>> /\ bx = IdleExec

ProjIdle ==
    /\ events = <<>> /\ now = 0 /\ row = None /\ rowLock = None
    /\ durable = {} /\ saved = <<>> /\ faults = 0 /\ runner = [r \in Runners |-> NewRunner]

\* ---- SpecPlan ----

\* Event instances of the sets' types: one DomainIdValue per declared field.
EventInstances(q) ==
    UNION {{[event_type |-> EVENT_DOMAIN_IDS(q)[i].type, domain_ids |-> ids] :
              ids \in [SeqToSet(EVENT_DOMAIN_IDS(q)[i].fields) -> DomainIdValue]} :
           i \in DOMAIN EVENT_DOMAIN_IDS(q)}

PlanInit ==
    /\ plSet \in EventSetNames
    /\ plBindings \in BindingsUniverse
    /\ plEvent \in EventInstances(plSet)
    /\ plItems = <<>>
    /\ plAgain = None
    /\ plDcb = [event_type |-> "", tags |-> {}]
    /\ plPc = "init"
    /\ ExecIdle
    /\ ProjIdle
    /\ BlkIdle

\* Command::query: build_query_items::<Self::Query>(&input.domain_id_bindings())
PlanQuery ==
    /\ plPc = "init"
    /\ \E gorder \in GroupOrders(EVENT_DOMAIN_IDS(plSet), plBindings),
          forder \in FieldOrders(EVENT_DOMAIN_IDS(plSet), plBindings) :
          plItems' = build_query_items(EVENT_DOMAIN_IDS(plSet), plBindings, gorder, forder)
    /\ plPc' = "planned"
    /\ UNCHANGED <<plSet, plBindings, plEvent, plAgain, plDcb, execVars, projVars, blkVars>>

\* A second call of build_query_items with the same EventSet and bindings:
\* its HashMaps may iterate in another order.
PlanAgain ==
    /\ plPc = "planned"
    /\ plAgain = None
    /\ \E gorder \in GroupOrders(EVENT_DOMAIN_IDS(plSet), plBindings),
          forder \in FieldOrders(EVENT_DOMAIN_IDS(plSet), plBindings) :
          plAgain' = Some(build_query_items(EVENT_DOMAIN_IDS(plSet), plBindings,
                                            gorder, forder))
    /\ UNCHANGED <<plSet, plBindings, plEvent, plItems, plDcb, plPc, execVars, projVars, blkVars>>

\* encode_to_dcb_event of the event the handler emitted
PlanEncode ==
    /\ plPc = "planned"
    /\ plDcb' = into_dcb_event(plEvent)
    /\ plPc' = "done"
    /\ UNCHANGED <<plSet, plBindings, plEvent, plItems, plAgain, execVars, projVars, blkVars>>

PlanNext == PlanQuery \/ PlanAgain \/ PlanEncode

SpecPlan == PlanInit /\ [][PlanNext]_vars

\* ---- SpecExec ----

ExecInit == PlanIdle /\ ExecIdle /\ ProjIdle /\ BlkIdle

GenValidationFails == \E e \in Execs, input \in GenericInputs :
                          ExecValidationFails(e, input, CommandContext(e)) /\ UNCHANGED <<planVars, projVars, blkVars>>
GenRead == \E e \in Execs, input \in GenericInputs :
               ExecRead(e, input, CommandContext(e)) /\ UNCHANGED <<planVars, projVars, blkVars>>
GenBeforeCommit == \E e \in Execs : ExecBeforeCommit(e) /\ UNCHANGED <<planVars, projVars, blkVars>>
GenAppend == \E e \in Execs : ExecAppend(e, MaxLog) /\ UNCHANGED <<planVars, projVars, blkVars>>
GenForeign == \E ev \in ForeignEvents : ForeignAppend(ev) /\ UNCHANGED <<planVars, projVars, blkVars>>

ExecNext == GenValidationFails \/ GenRead \/ GenBeforeCommit \/ GenAppend \/ GenForeign

SpecExec == ExecInit /\ [][ExecNext]_vars

\* ---- SpecDup: the read stream may deliver an item twice ----

DupRead == \E e \in Execs, input \in GenericInputs :
              /\ \E k \in 0..Len(StoreRead(log, query(input))) :
                    ExecuteRead(e, input, CommandContext(e), query(input),
                                Repeat(StoreRead(log, query(input)), k), StoreHead(log))
              /\ UNCHANGED <<planVars, projVars, blkVars>>

DupNext == GenValidationFails \/ DupRead \/ GenBeforeCommit \/ GenAppend \/ GenForeign

SpecDup == ExecInit /\ [][DupNext]_vars

\* ---- SpecFold: histories with events outside the set and undecodable ones ----

\* What the store may hold under the tag of the command: events of the set,
\* of another type, with a payload that does not decode, and one whose bytes
\* are not a StoredEventData.
FoldEvents ==
    LET e(ev) == encode_to_dcb_event(ev, ForeignEnvelope(0))
    IN  { e(EventA("abc")), e(EventB("abc")), e(EventC("abc")),
          e([EventA("abc") EXCEPT !.data.decodes = FALSE]),
          e([EventC("abc") EXCEPT !.data.decodes = FALSE]),
          [e(EventC("abc")) EXCEPT !.stored = FALSE] }

FoldInit ==
    /\ PlanIdle
    /\ ProjIdle
    /\ BlkIdle
    /\ log \in UNION {[1..n -> FoldEvents] : n \in 0..MaxFoldLog}
    /\ ex = [e \in Execs |-> IdleExec]
    /\ clock = [e \in Execs |-> 0]

FoldRead == \E input \in FoldInputs :
                ExecRead(1, input, CommandContext(1)) /\ UNCHANGED <<planVars, projVars, blkVars>>
FoldBeforeCommit == ExecBeforeCommit(1) /\ UNCHANGED <<planVars, projVars, blkVars>>
FoldAppend == ExecAppend(1, MaxFoldLog + 2) /\ UNCHANGED <<planVars, projVars, blkVars>>

FoldNext == FoldRead \/ FoldBeforeCommit \/ FoldAppend

SpecFold == FoldInit /\ [][FoldNext]_vars

\* ---- SpecClock: executors with their own clocks and caller-made contexts ----

\* The contexts a caller may pass to execute_with for executor e: the
\* correlation id 7 and the triggering event id 9 stand for Uuids made
\* elsewhere.
Contexts(e) ==
    {CommandContext(e), with_correlation_id(e, 7), triggered_by_event(e, 9, 7)}

ClockInputs == {[cmd |-> "Generic", user_id |-> "abc", valid |-> TRUE]}

ClkRead == \E e \in Execs, input \in ClockInputs :
               \E ctx \in Contexts(e) :
                  ExecRead(e, input, ctx) /\ UNCHANGED <<planVars, projVars, blkVars>>
ClkBeforeCommit == \E e \in Execs : ExecBeforeCommit(e) /\ UNCHANGED <<planVars, projVars, blkVars>>
ClkAppend == \E e \in Execs : ExecAppend(e, MaxLog) /\ UNCHANGED <<planVars, projVars, blkVars>>
ClkTick == \E e \in Execs : ClockTick(e) /\ UNCHANGED <<planVars, projVars, blkVars>>

ClockNext == ClkRead \/ ClkBeforeCommit \/ ClkAppend \/ ClkTick

SpecClock == ExecInit /\ [][ClockNext]_vars

\* ---- SpecColon: a handler that emits events with a colon in a field name ----

ColRead == \E e \in Execs, input \in ColonInputs :
               ExecRead(e, input, CommandContext(e)) /\ UNCHANGED <<planVars, projVars, blkVars>>
ColBeforeCommit == \E e \in Execs : ExecBeforeCommit(e) /\ UNCHANGED <<planVars, projVars, blkVars>>
ColAppend == \E e \in Execs : ExecAppend(e, MaxLog) /\ UNCHANGED <<planVars, projVars, blkVars>>

ColonNext == ColRead \/ ColBeforeCommit \/ ColAppend

SpecColon == ExecInit /\ [][ColonNext]_vars

\* ---- SpecBlocking: execute_with and execute_blocking_with side by side ----

\* The histories both executions start from.
BlockingHistories ==
    LET e(ev) == encode_to_dcb_event(ev, ForeignEnvelope(0))
    IN  UNION {[1..n -> {e(EventA("abc")), e([EventA("abc") EXCEPT !.data.decodes = FALSE])}] :
                 n \in 0..1}

BlockingInit ==
    /\ PlanIdle
    /\ ProjIdle
    /\ log \in BlockingHistories
    /\ ex = [e \in Execs |-> IdleExec]
    /\ clock = [e \in Execs |-> 0]
    /\ blog = log
    /\ bx = IdleExec

\* The async execution, by executor 1.
AsyncValidationFails == \E input \in GenericInputs :
                            /\ ExecValidationFails(1, input, CommandContext(1))
                            /\ UNCHANGED <<planVars, projVars, blkVars>>
AsyncRead == \E input \in GenericInputs :
                 ExecRead(1, input, CommandContext(1)) /\ UNCHANGED <<planVars, projVars, blkVars>>
AsyncBeforeCommit == ExecBeforeCommit(1) /\ UNCHANGED <<planVars, projVars, blkVars>>
AsyncAppend == ExecAppend(1, MaxLog) /\ UNCHANGED <<planVars, projVars, blkVars>>

\* The blocking execution of the same input with the same context, once the
\* async one is past before_commit: handle and before_commit return what
\* they returned there; the before_commit future may be ready or not.
BlkRead ==
    /\ ex[1].pc \in {"append", "done"}
    /\ \E h \in HandleResults(ex[1].input, Fold(ex[1].input,
                                                 [err |-> FALSE, state |-> default(ex[1].input),
                                                  applied |-> <<>>, skipped |-> <<>>,
                                                  applied_ts |-> <<>>],
                                                 StoreRead(blog, query(ex[1].input))).state),
          ready \in BOOLEAN, ok \in BeforeCommitResults(ex[1].input) :
          /\ ex[1].handled # <<>> => h = ex[1].handled[1]
          /\ ex[1].hooks # <<>> => ok = ex[1].hooks[1].ok
          /\ BlockingRead(ex[1].input, ex[1].ctx, h, ready, ok)
    /\ UNCHANGED <<planVars, execVars, projVars>>
BlkAppend == BlockingAppend(MaxLog) /\ UNCHANGED <<planVars, execVars, projVars>>

\* Another writer appends the same event to both stores while the two
\* executions are at the same place.
TwinForeign ==
    /\ ex[1].pc = bx.pc
    /\ blog = log
    /\ Len(log) < MaxLog
    /\ \E ev \in ForeignEvents :
          LET dcb == encode_to_dcb_event(ev, ForeignEnvelope(0))
          IN  /\ log' = append(log, <<dcb>>, None).log
              /\ blog' = append(blog, <<dcb>>, None).log
    /\ UNCHANGED <<planVars, projVars, ex, clock, bx>>

BlockingNext ==
    AsyncValidationFails \/ AsyncRead \/ AsyncBeforeCommit \/ AsyncAppend
    \/ BlkRead \/ BlkAppend \/ TwinForeign

SpecBlocking == BlockingInit /\ [][BlockingNext]_vars

\* ---- SpecBank ----

Setup == ForeignEnvelope(0)

BankInit ==
    /\ PlanIdle
    /\ ProjIdle
    /\ BlkIdle
    /\ log = << encode_to_dcb_event(OpenedAccount("alice", 2), Setup),
                encode_to_dcb_event(OpenedAccount("bob", 1), Setup) >>
    /\ ex = [e \in Execs |-> IdleExec]
    /\ clock = [e \in Execs |-> 0]

BankRead == \E e \in Execs, input \in TransferInputs :
                ExecRead(e, input, CommandContext(e)) /\ UNCHANGED <<planVars, projVars, blkVars>>
BankBeforeCommit == \E e \in Execs : ExecBeforeCommit(e) /\ UNCHANGED <<planVars, projVars, blkVars>>
BankAppend == \E e \in Execs : ExecAppend(e, 2 + 2 * MaxTransfers) /\ UNCHANGED <<planVars, projVars, blkVars>>

BankNext == BankRead \/ BankBeforeCommit \/ BankAppend

SpecBank == BankInit /\ [][BankNext]_vars

\* ---- SpecAccounts ----
\* Two executors, each running an OpenAccount or a TransferFunds, on a
\* store on which none, one or two accounts were opened before.

AccountHistories ==
    { <<>>,
      << encode_to_dcb_event(OpenedAccount("alice", 2), Setup) >>,
      << encode_to_dcb_event(OpenedAccount("alice", 2), Setup),
         encode_to_dcb_event(OpenedAccount("bob", 0), Setup) >> }

AccountsInit ==
    /\ PlanIdle
    /\ ProjIdle
    /\ BlkIdle
    /\ log \in AccountHistories
    /\ ex = [e \in Execs |-> IdleExec]
    /\ clock = [e \in Execs |-> 0]

AccRead == \E e \in Execs, input \in OpenAccountInputs \cup TransferInputs :
               ExecRead(e, input, CommandContext(e)) /\ UNCHANGED <<planVars, projVars, blkVars>>
AccBeforeCommit == \E e \in Execs : ExecBeforeCommit(e) /\ UNCHANGED <<planVars, projVars, blkVars>>
AccAppend == \E e \in Execs : ExecAppend(e, MaxBankLog) /\ UNCHANGED <<planVars, projVars, blkVars>>

AccountsNext == AccRead \/ AccBeforeCommit \/ AccAppend

SpecAccounts == AccountsInit /\ [][AccountsNext]_vars

\* ---- SpecKanban ----
\* Two executors, each running one of the task commands, on a store on
\* which task t1 may have been created, renamed or deleted before.

KanbanHistories ==
    LET e(ev) == encode_to_dcb_event(ev, Setup)
    IN  { <<>>,
          << e(TaskCreated("t1", "a", "Todo")) >>,
          << e(TaskCreated("t1", "a", "Todo")), e(TaskRenamed("t1", "b")) >>,
          << e(TaskCreated("t1", "a", "Todo")), e(TaskDeleted("t1")) >> }

KanbanInit ==
    /\ PlanIdle
    /\ ProjIdle
    /\ BlkIdle
    /\ log \in KanbanHistories
    /\ ex = [e \in Execs |-> IdleExec]
    /\ clock = [e \in Execs |-> 0]

KanRead == \E e \in Execs, input \in KanbanInputs :
               ExecRead(e, input, CommandContext(e)) /\ UNCHANGED <<planVars, projVars, blkVars>>
KanBeforeCommit == \E e \in Execs : ExecBeforeCommit(e) /\ UNCHANGED <<planVars, projVars, blkVars>>
KanAppend == \E e \in Execs : ExecAppend(e, MaxKanbanLog) /\ UNCHANGED <<planVars, projVars, blkVars>>

KanbanNext == KanRead \/ KanBeforeCommit \/ KanAppend

SpecKanban == KanbanInit /\ [][KanbanNext]_vars

\* ---- SpecTransfer ----
\* TransferFunds::handle over the states apply can fold: one executor runs
\* the command on a store holding any short history of the bank's events.

\* The amounts of TransferFundsInput: negative, zero, positive, NaN.
TransferAmounts == {0 - 1, 0, 1, 2, 3, NaN}

TransferCases ==
    {[cmd |-> "TransferFunds", source_account |-> s, dest_account |-> d, amount |-> a, valid |-> TRUE] :
        s \in Accounts, d \in Accounts, a \in TransferAmounts}

BankEvents ==
    { OpenedAccount("alice", 2), OpenedAccount("bob", 1),
      SentFunds("alice", 1, "bob"), ReceivedFunds("bob", 1, "alice"),
      ReceivedFunds("alice", 1, "god"), SentFunds("bob", 1, "alice") }

TransferHistories ==
    UNION {[1..n -> {encode_to_dcb_event(ev, Setup) : ev \in BankEvents}] : n \in 0..MaxHistory}

TransferInit ==
    /\ PlanIdle
    /\ ProjIdle
    /\ BlkIdle
    /\ log \in TransferHistories
    /\ ex = [e \in Execs |-> IdleExec]
    /\ clock = [e \in Execs |-> 0]

TrRead == \E input \in TransferCases :
              ExecRead(1, input, CommandContext(1)) /\ UNCHANGED <<planVars, projVars, blkVars>>
TrBeforeCommit == ExecBeforeCommit(1) /\ UNCHANGED <<planVars, projVars, blkVars>>
TrAppend == ExecAppend(1, MaxHistory + 2) /\ UNCHANGED <<planVars, projVars, blkVars>>

TransferNext == TrRead \/ TrBeforeCommit \/ TrAppend

SpecTransfer == TransferInit /\ [][TransferNext]_vars

\* ---- SpecProj ----

ProjInit == PlanIdle /\ ExecIdle /\ ProjIdle /\ BlkIdle

ProjBuild == \E r \in Runners : Build(r) /\ UNCHANGED <<planVars, execVars, blkVars>>
ProjNextEvent == \E r \in Runners, begin_ok \in BOOLEAN, handle_ok \in BOOLEAN :
                    NextEvent(r, begin_ok, handle_ok) /\ UNCHANGED <<planVars, execVars, blkVars>>
ProjNextTimeout == \E r \in Runners : NextTimeout(r) /\ UNCHANGED <<planVars, execVars, blkVars>>
ProjNextStreamEnd == \E r \in Runners : NextStreamEnd(r) /\ UNCHANGED <<planVars, execVars, blkVars>>
ProjSave == \E r \in Runners : Save(r) /\ UNCHANGED <<planVars, execVars, blkVars>>
ProjHandlerFlush == \E r \in Runners, ok \in BOOLEAN :
                       HandlerFlush(r, ok) /\ UNCHANGED <<planVars, execVars, blkVars>>
ProjCommit == \E r \in Runners, ok \in BOOLEAN :
                 Commit(r, ok) /\ UNCHANGED <<planVars, execVars, blkVars>>
ProjPostCommit == \E r \in Runners, ok \in BOOLEAN :
                     PostCommit(r, ok) /\ UNCHANGED <<planVars, execVars, blkVars>>
ProjStoreAppend == \E kind \in EventKinds : StoreAppend(kind) /\ UNCHANGED <<planVars, execVars, blkVars>>
ProjTick == Tick /\ UNCHANGED <<planVars, execVars, blkVars>>

ProjNext ==
    \/ ProjBuild \/ ProjNextEvent \/ ProjNextTimeout \/ ProjNextStreamEnd
    \/ ProjSave \/ ProjHandlerFlush \/ ProjCommit \/ ProjPostCommit
    \/ ProjStoreAppend \/ ProjTick

SpecProj == ProjInit /\ [][ProjNext]_vars

\* ---- SpecLive ----
\* One runner whose operations all succeed, on a subscription that does
\* not end; next() keeps being called and time advances.

LvBuild == Build("r1") /\ UNCHANGED <<planVars, execVars, blkVars>>
LvNextEvent == NextEvent("r1", TRUE, TRUE) /\ UNCHANGED <<planVars, execVars, blkVars>>
LvNextTimeout == NextTimeout("r1") /\ UNCHANGED <<planVars, execVars, blkVars>>
LvSave == Save("r1") /\ UNCHANGED <<planVars, execVars, blkVars>>
LvHandlerFlush == HandlerFlush("r1", TRUE) /\ UNCHANGED <<planVars, execVars, blkVars>>
LvCommit == Commit("r1", TRUE) /\ UNCHANGED <<planVars, execVars, blkVars>>
LvPostCommit == PostCommit("r1", TRUE) /\ UNCHANGED <<planVars, execVars, blkVars>>
LvStoreAppend == \E kind \in {"event", "other"} :
                    StoreAppend(kind) /\ UNCHANGED <<planVars, execVars, blkVars>>
LvTick == Tick /\ UNCHANGED <<planVars, execVars, blkVars>>

\* The steps of the runner.
LvRunner ==
    \/ LvBuild \/ LvNextEvent \/ LvNextTimeout
    \/ LvSave \/ LvHandlerFlush \/ LvCommit \/ LvPostCommit

LiveNext == LvRunner \/ LvStoreAppend \/ LvTick

SpecLive == ProjInit /\ [][LiveNext]_vars /\ WF_vars(LvRunner) /\ WF_vars(LvTick)

--------------------------------------------------------------------------
(* C2 *)

\* The event's Present values for bound fields are among the input's values.
PresentValuesBound(ev, bindings) ==
    \A f \in DOMAIN ev.domain_ids \cap DOMAIN bindings :
        ev.domain_ids[f].present => ev.domain_ids[f].value \in SeqToSet(bindings[f])

\* C2: plan soundness -- every emitted event of a type of the EventSet whose
\* Present domain-ID values for bound fields are among the input's values
\* (its other domain IDs may be Absent) matches an item of the default plan.
C2_PlanSoundness ==
    (plPc = "done" /\ PresentValuesBound(plEvent, plBindings))
        => QueryMatches(plItems, plDcb)

--------------------------------------------------------------------------
(* C1 *)

\* The executions whose append succeeded.
Appended(e) ==
    /\ ex[e].pc = "done"
    /\ ex[e].result.kind = "Ok"
    /\ ex[e].result.events # <<>>

\* Positions after the read's head (every position when the head is None).
AfterHead(e, p) == ex[e].head # None => p > ex[e].head[1]

\* C1: for every execution whose append succeeded, no event matching its
\* query lies after the head its read returned and before its own appended
\* events, and every matching event up to that head was folded into the
\* state the handler decided on.
C1_AppendCondition ==
    \A e \in Execs :
        Appended(e) =>
            \A p \in 1..(ex[e].first - 1) :
                QueryMatches(ex[e].query, log[p]) =>
                    /\ ~AfterHead(e, p)
                    /\ p \in SeqToSet(ex[e].applied)

\* An append succeeded although another writer appended (a non-matching
\* event) after the read, and the handler's state folded an earlier event.
C1_Witness ==
    \E e \in Execs :
        /\ Appended(e)
        /\ ex[e].applied # <<>>
        /\ \E p \in 1..(ex[e].first - 1) : AfterHead(e, p)

--------------------------------------------------------------------------
(* C5 *)

TransferAccounts(e) == {ex[e].input.source_account, ex[e].input.dest_account}

\* a and b are transfers over the same accounts, both reached the append, and
\* b had completed its read and not yet appended when a appended.
RacingTransfers(a, b) ==
    /\ a # b
    /\ ex[a].pc = "done" /\ ex[b].pc = "done"
    /\ ex[a].input.cmd = "TransferFunds" /\ ex[b].input.cmd = "TransferFunds"
    /\ ex[a].result.kind \in {"Ok", "Integrity"}
    /\ ex[b].result.kind \in {"Ok", "Integrity"}
    /\ ex[a].append_events # <<>> /\ ex[b].append_events # <<>>
    /\ b \in ex[a].racing
    /\ TransferAccounts(a) = TransferAccounts(b)

\* A third writer's event conflicts with both.
ThirdPartyConflict(a, b) ==
    \E p \in DOMAIN log :
        /\ log[p].causation_id \notin {a, b}
        /\ AfterHead(a, p)
        /\ QueryMatches(ex[a].query, log[p])

\* Every SentFunds is directly followed by the ReceivedFunds of its command.
NoPartialTransfer ==
    \A p \in DOMAIN log :
        log[p].event_type = "SentFunds" =>
            /\ p + 1 \in DOMAIN log
            /\ log[p + 1].event_type = "ReceivedFunds"
            /\ log[p + 1].causation_id = log[p].causation_id

\* C5: of two transfers over the same accounts that both read before either
\* appended, exactly one append succeeds and the other returns the store's
\* integrity error (both fail only when a third writer conflicts with them);
\* the log never holds a SentFunds without the ReceivedFunds of its command.
C5_ConcurrentTransfers ==
    /\ \A a, b \in Execs :
          RacingTransfers(a, b) =>
              /\ ~(ex[a].result.kind = "Ok" /\ ex[b].result.kind = "Ok")
              /\ ex[a].result.kind = "Ok" => ex[b].result.kind = "Integrity"
              /\ ~ThirdPartyConflict(a, b) =>
                    (ex[a].result.kind = "Ok" \/ ex[b].result.kind = "Ok")
    /\ NoPartialTransfer

\* Two racing transfers: one appended both its events, the other was refused.
C5_Witness ==
    \E a, b \in Execs :
        /\ RacingTransfers(a, b)
        /\ ex[a].result.kind = "Ok"
        /\ ex[b].result.kind = "Integrity"
        /\ \E p \in DOMAIN log : log[p].event_type = "SentFunds" /\ log[p].causation_id = a

--------------------------------------------------------------------------
(* C10 *)

\* C10: during one execution no stored position is passed to apply twice,
\* even when the read stream delivers a position more than once.
C10_AppliedAtMostOnce ==
    \A e \in Execs :
        \A i, j \in DOMAIN ex[e].applied :
            i # j => ex[e].applied[i] # ex[e].applied[j]

--------------------------------------------------------------------------
(* C3 *)

\* None of the handler writes of r's last flush is durable.
WindowNotDurable(r) == \A p \in runner[r].fl_tx : <<r, p>> \notin durable

\* r's last flush committed its checkpoint.
FlushCommitted(r) ==
    \E i \in DOMAIN saved :
        saved[i].runner = r /\ saved[i].position = runner[r].fl_position

\* C3: of the flushes of runners that hold the same last_flushed_position
\* (none included) at most one commits; a runner whose save runs after
\* another runner's flush from the same last_flushed_position committed gets
\* RowNotFound or a duplicate key, its flush returns that error, and none of
\* the handler writes of its transaction is durable.
C3_OneFlushPerPosition ==
    /\ \A i, j \in DOMAIN saved : i # j => saved[i].expected # saved[j].expected
    /\ \A r \in Runners :
          runner[r].conflict =>
              /\ runner[r].pc = "idle"
              /\ runner[r].failed_at = "save"
              /\ runner[r].result \in {"Err(RowNotFound)", "Err(DuplicateKey)"}
              /\ WindowNotDurable(r)
              /\ ~FlushCommitted(r)

\* Two runners held the same checkpoint; one committed, the other's UPDATE
\* found no row and its handler writes were dropped.
C3_Witness ==
    \E a, b \in Runners :
        /\ a # b
        /\ runner[b].conflict
        /\ runner[b].result = "Err(RowNotFound)"
        /\ runner[b].fl_tx # {}
        /\ \E i \in DOMAIN saved :
              saved[i].runner = a /\ saved[i].expected = runner[b].last_flushed_position

--------------------------------------------------------------------------
(* C4 *)

\* C4: the checkpoint positions committed to the table, by any runners in
\* any interleaving, are strictly increasing.
C4_MonotoneCheckpoints ==
    \A i, j \in DOMAIN saved : i < j => saved[i].position < saved[j].position

\* Two runners committed a checkpoint each.
C4_Witness ==
    \E i, j \in DOMAIN saved : i < j /\ saved[i].runner # saved[j].runner

--------------------------------------------------------------------------
(* C6 *)

\* The error each failing step of flush returns.
StepErrors(step) ==
    CASE step = "save" -> {"Err(RowNotFound)", "Err(DuplicateKey)"}
      [] step = "handler_flush" -> {"Err(Handler)"}
      [] step = "commit" -> {"Err(Sqlx)"}

\* C6: when checkpoint.save, handler.flush or the commit failed, the flush
\* returned that error, nothing of its transaction is durable (neither the
\* handler writes of the window nor the checkpoint), and events_since_flush
\* and last_flushed_position have their values from before the flush.
C6_FailedFlush ==
    \A r \in Runners :
        runner[r].failed_at \in {"save", "handler_flush", "commit"} =>
            /\ runner[r].pc = "idle"
            /\ runner[r].result \in StepErrors(runner[r].failed_at)
            /\ WindowNotDurable(r)
            /\ ~FlushCommitted(r)
            /\ rowLock # Some(r)
            /\ runner[r].events_since_flush = runner[r].pre.events_since_flush
            /\ runner[r].last_flushed_position = runner[r].pre.last_flushed_position

\* A commit failed after the window's handler wrote and the checkpoint was
\* saved in the transaction.
C6_Witness ==
    \E r \in Runners :
        /\ runner[r].failed_at = "commit"
        /\ runner[r].fl_tx # {}
        /\ runner[r].fl_row # None
        /\ runner[r].events_since_flush > 0

--------------------------------------------------------------------------
(* C7 *)

FlushOrder == <<"save", "handler_flush", "commit", "post_commit">>

\* C7: the steps of every flush are invoked in the order save,
\* handler.flush, commit, post_commit; post_commit only after the commit
\* succeeded; an error of post_commit is returned to the caller and the
\* committed checkpoint and handler writes stay.
C7_FlushOrder ==
    \A r \in Runners :
        /\ Len(runner[r].trace) <= Len(FlushOrder)
        /\ runner[r].trace = SubSeq(FlushOrder, 1, Len(runner[r].trace))
        /\ (\E i \in DOMAIN runner[r].trace : runner[r].trace[i] = "post_commit")
              => FlushCommitted(r)
        /\ runner[r].failed_at = "post_commit" =>
              /\ runner[r].result = "Err(Handler)"
              /\ FlushCommitted(r)
              /\ row # None /\ row[1] >= runner[r].fl_position
              /\ \A p \in runner[r].fl_tx : <<r, p>> \in durable

\* post_commit failed after a commit that made handler writes durable.
C7_Witness ==
    \E r \in Runners :
        /\ runner[r].failed_at = "post_commit"
        /\ runner[r].trace = FlushOrder
        /\ runner[r].fl_tx # {}
        /\ row = Some(runner[r].fl_position)

--------------------------------------------------------------------------
(* C8 *)

\* C8: a runner built on checkpoint p reads from p + 1, hands its handler no
\* event at or below p, and its first save expects p; one built without a
\* checkpoint row reads from the beginning and its first save is an INSERT.
C8_ResumeAfterCheckpoint ==
    \A r \in Runners :
        runner[r].pc # "new" =>
            IF runner[r].loaded # None
            THEN /\ runner[r].start = Some(runner[r].loaded[1] + 1)
                 /\ runner[r].cursor > runner[r].loaded[1]
                 /\ \A i \in DOMAIN runner[r].handled :
                       runner[r].handled[i] > runner[r].loaded[1]
                 /\ runner[r].first_save # <<>> =>
                       /\ runner[r].first_save[1].expected = runner[r].loaded
                       /\ ~runner[r].first_save[1].insert
            ELSE /\ runner[r].start = None
                 /\ runner[r].handled # <<>> => runner[r].handled[1] >= 1
                 /\ runner[r].first_save # <<>> => runner[r].first_save[1].insert

\* A runner built on a checkpoint handled an event and saved.
C8_Witness ==
    \E r \in Runners :
        /\ runner[r].loaded # None
        /\ runner[r].handled # <<>>
        /\ runner[r].first_save # <<>>

--------------------------------------------------------------------------
(* C9 *)

\* C9: within a run the positions handed to handler.handle are strictly
\* increasing.
C9_HandledIncreasing ==
    \A r \in Runners :
        \A i, j \in DOMAIN runner[r].handled :
            i < j => runner[r].handled[i] < runner[r].handled[j]

\* A runner handled two events of one flush window.
C9_Witness ==
    \E r \in Runners :
        /\ Len(runner[r].handled) >= 2
        /\ Cardinality(runner[r].fl_tx) >= 2
        /\ FlushCommitted(r)

--------------------------------------------------------------------------
(* C11 *)

\* C11: in every execution that reaches the append, the condition passed to
\* the append has fail_if_events_match equal to the query passed to the
\* execution's read and `after` equal to the head that read returned.
C11_ConditionOfTheRead ==
    \A e \in Execs :
        \A i \in DOMAIN ex[e].appends :
            /\ Len(ex[e].reads) = 1
            /\ ex[e].appends[i].condition.fail_if_events_match = ex[e].reads[1].query
            /\ ex[e].appends[i].condition.after = ex[e].reads[1].head

\* An execution appended after a read that returned a head, and the store's
\* head had moved on by then.
C11_Witness ==
    \E e \in Execs :
        /\ ex[e].appends # <<>>
        /\ ex[e].reads[1].head # None
        /\ ex[e].reads[1].query # <<>>
        /\ ex[e].first > ex[e].reads[1].head[1] + 1

--------------------------------------------------------------------------
(* C12 *)

\* The events of the store that executor e appended.
WrittenBy(e) == {p \in DOMAIN log : log[p].causation_id = e}

\* C12: when handle returns an empty Emit and before_commit succeeds, the
\* execution returns without an append call: it wrote nothing to the store,
\* and its ExecuteResult has the head of its read as position and no events.
C12_EmptyEmit ==
    \A e \in Execs :
        (/\ ex[e].hooks # <<>>
         /\ ex[e].hooks[1].ok
         /\ ex[e].hooks[1].emit = <<>>)
        => /\ ex[e].pc = "done"
           /\ ex[e].appends = <<>>
           /\ WrittenBy(e) = {}
           /\ ex[e].result = [kind |-> "Ok", position |-> ex[e].reads[1].head,
                              events |-> <<>>]

\* An execution with an empty Emit returned the head of its read while the
\* store held events, one of them appended after that read.
C12_Witness ==
    \E e \in Execs :
        /\ ex[e].hooks # <<>>
        /\ ex[e].hooks[1].ok
        /\ ex[e].hooks[1].emit = <<>>
        /\ ex[e].handled[1].ok
        /\ ex[e].result.kind = "Ok"
        /\ ex[e].result.position # None
        /\ Len(log) > ex[e].result.position[1]

--------------------------------------------------------------------------
(* C13 *)

\* handle, or before_commit after it, returned an error to executor e.
CommandFailed(e) ==
    \/ ex[e].handled # <<>> /\ ~ex[e].handled[1].ok
    \/ ex[e].hooks # <<>> /\ ~ex[e].hooks[1].ok

\* C13: when handle or before_commit returns an error, the execution returns
\* it as ExecuteError::Command, makes no append call and writes nothing to
\* the store.
C13_CommandError ==
    \A e \in Execs :
        CommandFailed(e)
        => /\ ex[e].pc = "done"
           /\ ex[e].result = [kind |-> "Command"]
           /\ ex[e].appends = <<>>
           /\ WrittenBy(e) = {}

\* One execution failed in handle and another in before_commit, the latter
\* after handle had returned events to append.
C13_Witness ==
    \E e, o \in Execs :
        /\ ex[e].handled # <<>> /\ ~ex[e].handled[1].ok
        /\ ex[o].hooks # <<>> /\ ~ex[o].hooks[1].ok /\ ex[o].hooks[1].emit # <<>>
        /\ log # <<>>

--------------------------------------------------------------------------
(* C14 *)

\* C14: when validate fails the execution returns ExecuteError::Validation
\* with validate as its only call: no query is planned, the store is neither
\* read nor appended to, and apply, handle and before_commit are not invoked.
C14_ValidationFirst ==
    \A e \in Execs :
        (ex[e].pc # "idle" /\ ~ex[e].input.valid)
        => /\ ex[e].pc = "done"
           /\ ex[e].result = [kind |-> "Validation"]
           /\ ex[e].trace = <<"validate">>
           /\ ex[e].query = <<>>
           /\ ex[e].reads = <<>>
           /\ ex[e].appends = <<>>
           /\ ex[e].applied = <<>>
           /\ ex[e].handled = <<>>
           /\ ex[e].hooks = <<>>
           /\ WrittenBy(e) = {}

\* An invalid input was rejected while the store held an event its query
\* would have matched.
C14_Witness ==
    \E e \in Execs :
        /\ ex[e].result = [kind |-> "Validation"]
        /\ StoreRead(ex[e].log_before, query(ex[e].input)) # <<>>

--------------------------------------------------------------------------
(* C15 *)

\* The places of a call in the trace of an execution.
Calls(x, name) == {i \in DOMAIN x.trace : x.trace[i] = name}

\* C15: before_commit is invoked exactly once in an execution whose handle
\* returned Ok, after handle and before any append, with the Emit handle
\* returned, also when that Emit is empty; it is never invoked when validate
\* or handle failed.
C15_BeforeCommitOnce ==
    \A e \in Execs :
        LET x == ex[e]
        IN  /\ Len(x.hooks) <= 1
            /\ Cardinality(Calls(x, "before_commit")) = Len(x.hooks)
            /\ (x.handled # <<>> /\ x.handled[1].ok)
               => \/ x.pc = "before_commit" /\ x.hooks = <<>>
                  \/ Len(x.hooks) = 1 /\ x.hooks[1].emit = x.handled[1].emit
            /\ x.hooks # <<>> => /\ x.input.valid
                                 /\ x.handled # <<>> /\ x.handled[1].ok
            /\ \A b \in Calls(x, "before_commit") :
                  /\ \E h \in Calls(x, "handle") : h < b
                  /\ \A a \in Calls(x, "append") : b < a
            /\ x.appends # <<>> => Len(x.hooks) = 1

\* before_commit ran with an empty Emit in one execution and with the
\* appended events in another.
C15_Witness ==
    \E e, o \in Execs :
        /\ ex[e].hooks # <<>> /\ ex[e].hooks[1].emit = <<>> /\ ex[e].pc = "done"
        /\ ex[o].hooks # <<>> /\ Len(ex[o].hooks[1].emit) = 2 /\ ex[o].appends # <<>>
        /\ ex[o].result.kind = "Ok"

--------------------------------------------------------------------------
(* C16 *)

\* The types of the EventSet of the command of execution x.
SetTypes(x) == {QueryEventSet(x.input)[i].type : i \in DOMAIN QueryEventSet(x.input)}

\* What the read of execution x returned.
ReadEvents(x) == StoreRead(x.log_before, x.reads[1].query)

\* The places of the read events that stop the fold: bytes that are no
\* StoredEventData, or an event of the set whose payload does not decode.
FoldStops(x) ==
    {i \in DOMAIN ReadEvents(x) :
        LET ev == ReadEvents(x)[i].event
        IN  ~ev.stored \/ (ev.event_type \in SetTypes(x) /\ ~ev.data.decodes)}

\* The read events the fold got through.
Folded(x) ==
    IF FoldStops(x) = {} THEN ReadEvents(x)
    ELSE SubSeq(ReadEvents(x), 1,
                (CHOOSE i \in FoldStops(x) : \A j \in FoldStops(x) : i <= j) - 1)

\* C16: the fold skips an event whose type is not in the command's EventSet,
\* without apply and without failing, and applies the other events in stream
\* order; an event of the set whose payload does not decode ends the
\* execution with ExecuteError::Serialization and nothing is appended.
C16_FoldSkipsAndAborts ==
    \A e \in Execs :
        LET x == ex[e]
            inSet(se) == se.event.event_type \in SetTypes(x)
            outOfSet(se) == ~inSet(se)
            mine == SelectSeq(Folded(x), inSet)
            others == SelectSeq(Folded(x), outOfSet)
        IN  x.reads # <<>>
            => /\ x.applied = [i \in DOMAIN mine |-> mine[i].position]
               /\ x.skipped = [i \in DOMAIN others |-> others[i].position]
               /\ x.state = [i \in DOMAIN mine |-> mine[i].event.data.payload]
               /\ FoldStops(x) = {} => x.result.kind # "Serialization"
               /\ FoldStops(x) # {} => /\ x.pc = "done"
                                       /\ x.result = [kind |-> "Serialization"]
                                       /\ x.handled = <<>>
                                       /\ x.appends = <<>>
                                       /\ WrittenBy(e) = {}

\* A fold skipped an event outside the set between two events it applied,
\* and the execution went on to append.
C16_Witness ==
    \E e \in Execs :
        /\ Len(ex[e].applied) = 2
        /\ Len(ex[e].skipped) = 1
        /\ ex[e].applied[1] < ex[e].skipped[1]
        /\ ex[e].skipped[1] < ex[e].applied[2]
        /\ ex[e].result.kind = "Ok"
        /\ ex[e].appends # <<>>

\* A fold stopped at an event of the set whose payload does not decode,
\* after it had skipped one event and applied another.
C16_AbortWitness ==
    \E e \in Execs :
        /\ ex[e].result = [kind |-> "Serialization"]
        /\ Len(ex[e].applied) = 1
        /\ Len(ex[e].skipped) = 1
        /\ \E i \in FoldStops(ex[e]) :
              /\ ReadEvents(ex[e])[i].event.stored
              /\ ReadEvents(ex[e])[i].event.event_type = "EventA"

--------------------------------------------------------------------------
(* C17 *)

\* The store positions of the events the successful append of x wrote.
AppendedAt(x) ==
    IF x.first = 0 THEN {} ELSE x.first .. (x.first + Len(x.append_events) - 1)

\* C17: every event appended by an execution with context ctx has
\* causation_id = ctx.command_id, correlation_id = ctx.correlation_id and
\* triggered_by = ctx.triggered_by, and all events of the execution carry
\* one timestamp, the clock reading taken before handle was called.
C17_EnvelopeOfContext ==
    \A e \in Execs :
        LET x == ex[e]
        IN  /\ \A p \in AppendedAt(x) :
                  /\ log[p].causation_id = x.ctx.command_id
                  /\ log[p].correlation_id = x.ctx.correlation_id
                  /\ log[p].triggered_by = x.ctx.triggered_by
                  /\ log[p].timestamp = x.timestamp
            /\ \A i \in DOMAIN x.append_events :
                  x.append_events[i].timestamp = x.timestamp
            /\ \A h \in Calls(x, "handle") :
                  /\ Cardinality(Calls(x, "now")) = 1
                  /\ \A n \in Calls(x, "now") : n < h

\* An execution triggered by an event, with a correlation id other than its
\* command id, appended two events after its clock had moved past the
\* reading it took before handle.
C17_Witness ==
    \E e \in Execs :
        /\ ex[e].ctx = triggered_by_event(e, 9, 7)
        /\ Cardinality(AppendedAt(ex[e])) = 2
        /\ ex[e].timestamp > 0
        /\ clock[e] > ex[e].timestamp

--------------------------------------------------------------------------
(* C18 *)

\* C18: the timestamp of every event an execution appended is greater than
\* or equal to the timestamp of every stored event passed to apply during
\* that execution, each executor stamping with its own clock reading.
C18_TimestampAfterApplied ==
    \A e \in Execs :
        \A p \in AppendedAt(ex[e]) :
            \A i \in DOMAIN ex[e].applied_ts :
                log[p].timestamp >= ex[e].applied_ts[i]

--------------------------------------------------------------------------
(* C19 *)

\* The stored event dcb is the encoding of the emitted event ev.
EncodingOf(dcb, ev) ==
    /\ dcb.event_type = ev.event_type
    /\ dcb.tags = into_dcb_event(ev).tags
    /\ dcb.data = ev.data

\* The events are the encodings of the Emit, place by place.
InEmitOrder(encoded, emit) ==
    /\ Len(encoded) = Len(emit)
    /\ \A i \in DOMAIN emit : EncodingOf(encoded[i], emit[i])

\* C19: the events an execution appends, and those of its ExecuteResult, are
\* in the order in which handle added them to the Emit, and they are passed
\* to the store in a single append call.
C19_EmitOrder ==
    \A e \in Execs :
        LET x == ex[e]
        IN  /\ Len(x.appends) <= 1
            /\ x.appends # <<>> => InEmitOrder(x.appends[1].events, x.handled[1].emit)
            /\ (x.pc = "done" /\ x.result.kind = "Ok")
               => /\ InEmitOrder(x.result.events, x.handled[1].emit)
                  /\ x.result.events # <<>>
                     => /\ Len(x.appends) = 1
                        /\ InEmitOrder([i \in DOMAIN x.result.events |-> log[x.first + i - 1]],
                                       x.handled[1].emit)

\* An execution appended two events of different types behind an event
\* another writer had stored.
C19_Witness ==
    \E e \in Execs :
        /\ ex[e].result.kind = "Ok"
        /\ Len(ex[e].result.events) = 2
        /\ ex[e].result.events[1].event_type # ex[e].result.events[2].event_type
        /\ ex[e].first > 1

--------------------------------------------------------------------------
(* C20 *)

\* The domain-ID fields of the i-th event type that are keys of the bindings.
BoundFields(i) ==
    SeqToSet(EVENT_DOMAIN_IDS(plSet)[i].fields) \cap DOMAIN plBindings

\* The groups: the sets of bound fields some event type has.
BoundGroups == {BoundFields(i) : i \in DOMAIN EVENT_DOMAIN_IDS(plSet)}

\* The event types of a group, in the order of EVENT_DOMAIN_IDS.
TypesOfGroup(F) ==
    LET idx == SelectSeq([i \in DOMAIN EVENT_DOMAIN_IDS(plSet) |-> i],
                         LAMBDA i : BoundFields(i) = F)
    IN  [k \in DOMAIN idx |-> EVENT_DOMAIN_IDS(plSet)[idx[k]].type]

\* The elements of the Cartesian product of the value sequences over F: one
\* place of its value sequence for each field.
ProductOver(F) ==
    {c \in [F -> 1..MaxVals] : \A f \in F : c[f] <= Len(plBindings[f])}

\* The tags of a product element.
TagsOfElement(F, c) == {Tag(f, plBindings[f][c[f]]) : f \in F}

\* The product of the value counts of the fields of F.
RECURSIVE ValueCount(_)
ValueCount(F) ==
    IF F = {} THEN 1
    ELSE LET f == CHOOSE g \in F : TRUE
         IN  Len(plBindings[f]) * ValueCount(F \ {f})

\* The places of the items of a group in the plan.
ItemsOfGroup(F) == {k \in DOMAIN plItems : plItems[k].types = TypesOfGroup(F)}

\* C20: build_query_items groups the event types by their bound domain-ID
\* fields; a group with fields F gets exactly one item per element of the
\* Cartesian product of the value sequences over F, each with exactly one
\* tag f:v per field of F and the group's types, so the group has as many
\* items as the product of the value counts of its fields.
C20_ItemsAreTheProduct ==
    plPc \in {"planned", "done"}
    => /\ \A k \in DOMAIN plItems : \E F \in BoundGroups : k \in ItemsOfGroup(F)
       /\ \A F \in BoundGroups :
             F # {}
             => /\ Cardinality(ItemsOfGroup(F)) = ValueCount(F)
                /\ \A k \in ItemsOfGroup(F) :
                      /\ Len(plItems[k].tags) = Cardinality(F)
                      /\ \E c \in ProductOver(F) :
                            SeqToSet(plItems[k].tags) = TagsOfElement(F, c)
                /\ \A c \in ProductOver(F) :
                      Cardinality({k \in ItemsOfGroup(F) :
                                     SeqToSet(plItems[k].tags) = TagsOfElement(F, c)})
                      = Cardinality({d \in ProductOver(F) :
                                       TagsOfElement(F, d) = TagsOfElement(F, c)})

\* A plan with a group of two fields of two different values each: four
\* items, next to a group of one field.
C20_Witness ==
    /\ plPc = "planned"
    /\ \E F \in BoundGroups :
          /\ Cardinality(F) = 2
          /\ Cardinality(ItemsOfGroup(F)) = 4
          /\ Cardinality({SeqToSet(plItems[k].tags) : k \in ItemsOfGroup(F)}) = 4
    /\ \E F \in BoundGroups : Cardinality(F) = 1 /\ Cardinality(ItemsOfGroup(F)) = 2

--------------------------------------------------------------------------
(* C21 *)

\* C21: a group without bound fields (the event declares no domain IDs, or
\* none of them is a key of the bindings) yields exactly one item, with no
\* tags and the group's types; with empty bindings the plan is exactly one
\* item without tags whose types are all the types of the EventSet.
C21_TypeOnlyItem ==
    plPc \in {"planned", "done"}
    => /\ {} \in BoundGroups
          => /\ Cardinality(ItemsOfGroup({})) = 1
             /\ \A k \in ItemsOfGroup({}) : plItems[k].tags = <<>>
       /\ \A k \in DOMAIN plItems :
             plItems[k].tags = <<>> => plItems[k].types = TypesOfGroup({})
       /\ DOMAIN plBindings = {}
          => plItems = << [tags |-> <<>>, types |-> EVENT_TYPES(plSet)] >>

\* A plan where one type has no bound field while another has one.
C21_Witness ==
    /\ plPc = "planned"
    /\ {} \in BoundGroups
    /\ Cardinality(BoundGroups) = 2
    /\ Len(plItems) >= 3

\* A plan for empty bindings over an EventSet of three types.
C21_EmptyBindingsWitness ==
    /\ plPc = "planned"
    /\ DOMAIN plBindings = {}
    /\ Len(EVENT_TYPES(plSet)) = 3

--------------------------------------------------------------------------
(* C22 *)

\* The items of a plan, an item being its set of tags and its set of types.
ItemSet(items) ==
    {[tags |-> SeqToSet(items[k].tags), types |-> SeqToSet(items[k].types)] :
        k \in DOMAIN items}

\* C22: for a fixed EventSet and bindings, two calls of build_query_items
\* return equal item sets.
C22_PlanIdempotent ==
    plAgain # None => ItemSet(plAgain[1]) = ItemSet(plItems)

\* Two calls returned the same items in different orders: other places in
\* the Vec and another order of the tags within an item.
C22_Witness ==
    /\ plAgain # None
    /\ Len(plItems) >= 3
    /\ \E k \in DOMAIN plItems : plAgain[1][k].types # plItems[k].types
    /\ \E k, j \in DOMAIN plItems :
          /\ SeqToSet(plAgain[1][j].tags) = SeqToSet(plItems[k].tags)
          /\ plAgain[1][j].tags # plItems[k].tags

--------------------------------------------------------------------------
(* C23 *)

\* C23: build_query_items never returns two items with the same tag set and
\* the same type set, whatever the bindings, value sequences that hold one
\* value twice included.
C23_NoDuplicateItems ==
    plPc \in {"planned", "done"}
    => \A k, j \in DOMAIN plItems :
          (/\ SeqToSet(plItems[k].tags) = SeqToSet(plItems[j].tags)
           /\ SeqToSet(plItems[k].types) = SeqToSet(plItems[j].types))
          => k = j

--------------------------------------------------------------------------
(* C24 *)

\* position <= head for the Options flush_if_necessary compares: replay.
Replaying(position, head) ==
    \/ position = None
    \/ position # None /\ head # None /\ position[1] <= head[1]

\* C24: flush_if_necessary flushes exactly when the position is at most the
\* head observed at start (replay) and events_since_flush or the elapsed
\* time reached the replay interval, or the position is beyond that head
\* (live) and one of them reached the live interval; a position equal to the
\* head counts as replay.
C24_FlushDecision ==
    \A r \in Runners :
        LET f == runner[r].fin
        IN  f.called
            => (f.flush <=>
                   \/ /\ Replaying(f.position, f.head)
                      /\ \/ f.events_since_flush >= replay_events_interval
                         \/ f.elapsed >= replay_time_interval
                   \/ /\ ~Replaying(f.position, f.head)
                      /\ \/ f.events_since_flush >= live_events_interval
                         \/ f.elapsed >= live_time_interval)

\* A runner did not flush after the first event of the replay, and another
\* flushed at the event whose position is the head it observed at start.
C24_Witness ==
    \E r, q \in Runners :
        /\ runner[r].fin.called /\ ~runner[r].fin.flush
        /\ runner[r].fin.events_since_flush = 1
        /\ runner[q].fin.called /\ runner[q].fin.flush
        /\ runner[q].fin.position # None
        /\ runner[q].fin.position = runner[q].fin.head
        /\ runner[q].fin.elapsed = 0

\* A runner flushed at its first live event.
C24_LiveWitness ==
    \E r \in Runners :
        /\ runner[r].fin.called /\ runner[r].fin.flush
        /\ runner[r].fin.head # None
        /\ runner[r].fin.position # None
        /\ runner[r].fin.position[1] > runner[r].fin.head[1]
        /\ runner[r].fin.events_since_flush = 1
        /\ runner[r].fin.elapsed = 0

--------------------------------------------------------------------------
(* C25 *)

\* The last next() of runner r handled the event at position p, beyond the
\* head observed at start, and returned Ok(true).
HandledLive(r, p) ==
    /\ runner[r].pc = "idle"
    /\ runner[r].call = "event"
    /\ runner[r].result = "Ok(true)"
    /\ runner[r].cursor = p + 1
    /\ runner[r].head = None \/ p > runner[r].head[1]

\* C25 as stated: at the step in which such a next() returns, the event's
\* position is the committed checkpoint, events_since_flush is 0 and no
\* transaction is open.
C25_AtReturn ==
    [][\A r \in Runners :
          \A p \in DOMAIN events :
              (runner'[r] # runner[r] /\ HandledLive(r, p)')
              => /\ row' = Some(p)
                 /\ runner'[r].events_since_flush = 0
                 /\ runner'[r].transaction = None]_vars

\* C25, amended: at the step in which such a next() returns, the call has
\* committed the event's position as the checkpoint, and it is still the
\* committed checkpoint unless another runner of the projection_id committed
\* a checkpoint after it; events_since_flush is 0 and no transaction is open.
C25_LiveFlushedAtReturn ==
    [][\A r \in Runners :
          \A p \in DOMAIN events :
              (runner'[r] # runner[r] /\ HandledLive(r, p)')
              => /\ \E i \in DOMAIN saved' :
                       /\ saved'[i].runner = r
                       /\ saved'[i].position = p
                       /\ \/ row' = Some(p)
                          \/ \E j \in DOMAIN saved' : j > i /\ saved'[j].runner # r
                 /\ runner'[r].events_since_flush = 0
                 /\ runner'[r].transaction = None]_vars

\* A runner that started at head 1 replayed that event without a flush and
\* then handled the live event at position 2, which is now the checkpoint
\* and whose handler write is durable.
C25_Witness ==
    \E r \in Runners :
        /\ HandledLive(r, 2)
        /\ runner[r].head = Some(1)
        /\ events[2] = "event"
        /\ row = Some(2)
        /\ <<r, 2>> \in durable
        /\ <<r, 1>> \in durable

--------------------------------------------------------------------------
(* C26 *)

\* The domain-ID fields of the planned event whose value is Present.
PresentFields == {f \in DOMAIN plEvent.domain_ids : plEvent.domain_ids[f].present}

\* C26: the tags of the encoded event are exactly the strings field:value of
\* its domain-ID fields whose value is Present, one per Present field and
\* none for an Absent one; its event_type is the event's EVENT_TYPE.
C26_TagsOfPresentFields ==
    plPc = "done"
    => /\ plDcb.event_type = plEvent.event_type
       /\ \A f \in PresentFields :
             (f \o ":" \o plEvent.domain_ids[f].value) \in plDcb.tags
       /\ \A t \in plDcb.tags :
             \E f \in PresentFields : t = f \o ":" \o plEvent.domain_ids[f].value
       /\ Cardinality(plDcb.tags) = Cardinality(PresentFields)

\* An event with one Present and one Absent domain-ID field was encoded.
C26_Witness ==
    /\ plPc = "done"
    /\ Cardinality(DOMAIN plEvent.domain_ids) = 2
    /\ Cardinality(PresentFields) = 1
    /\ plDcb.tags # {}

--------------------------------------------------------------------------
(* C27 *)

\* handle of execution x emitted an event with a colon in a domain-ID name.
EmitsColonField(x) ==
    /\ x.handled # <<>>
    /\ x.handled[1].ok
    /\ \E i \in DOMAIN x.handled[1].emit :
          \E f \in DOMAIN x.handled[1].emit[i].domain_ids : f \in ColonFields

\* C27: no event is appended with a tag of a domain-ID field whose name
\* holds a colon: an execution whose Emit has such a field, Present or
\* Absent, stops at the encoding (or earlier, at a failed before_commit)
\* and appends nothing, the other events of its Emit included.
C27_NoColonField ==
    /\ \A p \in DOMAIN log : \A f \in ColonFields, v \in Values \cup {""} :
          (f \o ":" \o v) \notin log[p].tags
    /\ \A e \in Execs :
          EmitsColonField(ex[e])
          => /\ ex[e].pc \in {"before_commit", "done"}
             /\ ex[e].pc = "done" => ex[e].result.kind \in {"Panic", "Command"}
             /\ (ex[e].pc = "done" /\ ex[e].hooks[1].ok) => ex[e].result.kind = "Panic"
             /\ ex[e].appends = <<>>
             /\ WrittenBy(e) = {}

\* An execution stopped at an Emit whose second event has an Absent field
\* with a colon in its name: its first event is not in the store, which
\* holds what the other executor appended.
C27_Witness ==
    \E e \in Execs :
        /\ ex[e].result = [kind |-> "Panic"]
        /\ Len(ex[e].emit) = 2
        /\ ex[e].emit[2] = EventD(Absent)
        /\ ex[e].hooks[1].ok
        /\ log # <<>>

\* An execution stopped at a Present field with a colon in its name.
C27_PresentWitness ==
    \E e \in Execs :
        /\ ex[e].result = [kind |-> "Panic"]
        /\ ex[e].emit[1] = EventD(Present("abc"))

--------------------------------------------------------------------------
(* C28 *)

\* The before_commit future of the blocking execution was not ready at its
\* first poll.
Suspended(x) ==
    /\ x.pc = "done"
    /\ x.result = [kind |-> "Panic"]
    /\ x.hooks = <<>>
    /\ "before_commit" \in SeqToSet(x.trace)

\* C28: from the same store state, input and context, and with a
\* before_commit that completes without suspending, execute_blocking_with
\* performs the same store operations (the read with the same query, the
\* append with the same events and condition) and returns the same result
\* or error as execute_with; if before_commit would suspend, the blocking
\* execution is aborted and appends nothing.
C28_BlockingRefinesAsync ==
    /\ (bx.pc = "done" /\ ex[1].pc = "done" /\ ~Suspended(bx))
       => /\ bx.input = ex[1].input
          /\ bx.ctx = ex[1].ctx
          /\ bx.log_before = ex[1].log_before
          /\ bx.reads = ex[1].reads
          /\ bx.appends = ex[1].appends
          /\ bx.trace = ex[1].trace
          /\ bx.applied = ex[1].applied
          /\ bx.result = ex[1].result
          /\ blog = log
    /\ Suspended(bx)
       => /\ bx.appends = <<>>
          /\ Len(blog) = Len(bx.log_before)
                         + Cardinality({p \in DOMAIN blog : p > Len(bx.log_before)
                                                            /\ blog[p].causation_id = 0})

\* Both executions appended two events behind a stored one and returned the
\* same positions.
C28_Witness ==
    /\ bx.pc = "done" /\ ex[1].pc = "done"
    /\ bx.result.kind = "Ok"
    /\ Len(bx.result.events) = 2
    /\ bx.reads[1].head # None
    /\ bx.result = ex[1].result

\* Both executions lost the append to another writer.
C28_IntegrityWitness ==
    /\ bx.result = [kind |-> "Integrity"]
    /\ ex[1].result = [kind |-> "Integrity"]

\* The blocking execution stopped at a before_commit that was not ready
\* while the async execution of the same input appended.
C28_SuspendWitness ==
    /\ Suspended(bx)
    /\ ex[1].pc = "done" /\ ex[1].result.kind = "Ok" /\ ex[1].appends # <<>>

--------------------------------------------------------------------------
(* C29 *)

\* The events apply was called with, in order.
AppliedEvents(x) == [i \in DOMAIN x.applied |-> x.log_before[x.applied[i]]]

\* The folded balance of an account: the initial balance of its
\* OpenedAccount, plus the ReceivedFunds and minus the SentFunds amounts
\* that follow it; None while the account is not open.
RECURSIVE FoldedBalance(_, _)
FoldedBalance(evs, acc) ==
    IF evs = <<>> THEN None
    ELSE LET ev == evs[Len(evs)]
             before == FoldedBalance(SubSeq(evs, 1, Len(evs) - 1), acc)
         IN  IF ev.data.account_id # acc THEN before
             ELSE IF ev.event_type = "OpenedAccount" THEN Some(ev.data.amount)
             ELSE IF before = None THEN None
             ELSE IF ev.event_type = "ReceivedFunds" THEN Some(before[1] + ev.data.amount)
             ELSE IF ev.event_type = "SentFunds" THEN Some(before[1] - ev.data.amount)
             ELSE before

IsOpen(evs, acc) == FoldedBalance(evs, acc) # None

\* The condition under which the transfer is to be accepted; amount > 0
\* and balance >= amount are the comparisons of f64.
TransferAllowed(evs, input) ==
    LET s == input.source_account
        d == input.dest_account
    IN  /\ IsOpen(evs, s) \/ s = "god"
        /\ IsOpen(evs, d) /\ d # "god"
        /\ s # d
        /\ F64Lt(0, input.amount)
        /\ s = "god" \/ F64Le(input.amount, FoldedBalance(evs, s)[1])

\* The same with the amount test of the code: not (amount <= 0), and
\* not (balance < amount).
TransferPasses(evs, input) ==
    LET s == input.source_account
        d == input.dest_account
    IN  /\ IsOpen(evs, s) \/ s = "god"
        /\ IsOpen(evs, d) /\ d # "god"
        /\ s # d
        /\ ~F64Le(input.amount, 0)
        /\ s = "god" \/ ~F64Lt(FoldedBalance(evs, s)[1], input.amount)

HandleIs(x, allowed) ==
    LET h == x.handled[1]
        input == x.input
    IN  /\ h.ok <=> allowed
        /\ h.ok => h.emit = << SentFunds(input.source_account, input.amount, input.dest_account),
                               ReceivedFunds(input.dest_account, input.amount, input.source_account) >>
        /\ ~h.ok => /\ h.emit = <<>>
                    /\ x.pc = "done" /\ x.result = [kind |-> "Command"]
                    /\ x.appends = <<>> /\ log = x.log_before

\* C29: TransferFunds.handle returns exactly [SentFunds(source, amount,
\* dest), ReceivedFunds(dest, amount, source)] if and only if the source
\* account is open or is 'god', the destination account is open and is not
\* 'god', source differs from dest, amount > 0, and the source is 'god' or
\* its folded balance >= amount; in every other case it returns an error
\* and emits no event.
C29_TransferDecision ==
    ex[1].handled # <<>> => HandleIs(ex[1], TransferAllowed(AppliedEvents(ex[1]), ex[1].input))

\* The decision as the code takes it: an amount that is not <= 0 and a
\* balance that is not < amount.
TransferDecisionOfTheCode ==
    ex[1].handled # <<>> => HandleIs(ex[1], TransferPasses(AppliedEvents(ex[1]), ex[1].input))

\* A transfer of a NaN amount was accepted.
NaNTransferAccepted ==
    /\ ex[1].handled # <<>>
    /\ ex[1].input.amount = NaN
    /\ ex[1].handled[1].ok

--------------------------------------------------------------------------
(* C30 *)

\* The positions whose handler writes are committed for the projection_id.
CommittedWrites == {w[2] : w \in durable}

\* The in-set events at or below the committed checkpoint.
CoveredEvents == {p \in DOMAIN events : events[p] = "event" /\ OptLe(Some(p), row)}

\* C30: for one projection_id, in every reachable state the durably
\* committed handler writes are exactly those of the delivered in-set
\* events with position <= the durably committed checkpoint: no committed
\* checkpoint covers an event whose handler call failed or whose writes
\* were rolled back or never committed, whatever the sequence of next()
\* calls, calls after an earlier error included.
C30_CheckpointCoversWrites == CommittedWrites = CoveredEvents


\* The committed checkpoint covers an event that was handed to the handler
\* and has no committed write.
CoveredWithoutWrite ==
    \E r \in Runners : \E i \in DOMAIN runner[r].handled :
        LET p == runner[r].handled[i]
        IN  /\ events[p] = "event"
            /\ OptLe(Some(p), row)
            /\ p \notin CommittedWrites

--------------------------------------------------------------------------
(* C31 *)

\* The commits of checkpoint changes made by runner r, in commit order.
CommitsOf(r) == SelectSeq(saved, LAMBDA s : s.runner = r)

\* The checkpoint position runner r most recently committed, or the
\* checkpoint it loaded if it has committed none.
LastCommittedBy(r) ==
    IF CommitsOf(r) = <<>> THEN runner[r].loaded
    ELSE Some(CommitsOf(r)[Len(CommitsOf(r))].position)

\* C31: after every flush attempt, whether it returned Ok or an error from
\* save, handler.flush, commit or post_commit, the runner's
\* last_flushed_position is the checkpoint position this runner most
\* recently committed, or the loaded checkpoint if it has committed none.
C31_LastFlushedIsCommitted ==
    \A r \in Runners :
        runner[r].pc \in {"idle", "ended"} =>
            runner[r].last_flushed_position = LastCommittedBy(r)

--------------------------------------------------------------------------
(* C32 *)

\* The sum of f over the events of the log that are of the given type and
\* of the account.
RECURSIVE SumOf(_, _, _)
SumOf(l, type, acc) ==
    IF l = <<>> THEN 0
    ELSE (IF l[1].event_type = type /\ l[1].data.account_id = acc THEN l[1].data.amount ELSE 0)
         + SumOf(Tail(l), type, acc)

\* The balance of an account folded from the whole log.
LogBalance(acc) ==
    SumOf(log, "OpenedAccount", acc) + SumOf(log, "ReceivedFunds", acc)
    - SumOf(log, "SentFunds", acc)

OpenedCount(acc) ==
    Cardinality({p \in DOMAIN log : log[p].event_type = "OpenedAccount"
                                    /\ log[p].data.account_id = acc})

\* C32: under any interleaving of concurrent OpenAccount and TransferFunds
\* executions, with non-negative initial balances and positive integer
\* amounts, the balance of every account other than 'god' folded from the
\* whole log is never negative, and no account has more than one
\* OpenedAccount event.
C32_BalancesNeverNegative ==
    /\ \A acc \in Accounts \ {"god"} : LogBalance(acc) >= 0
    /\ \A acc \in Accounts : OpenedCount(acc) <= 1

\* Two executions that raced on one source account: one transfer emptied
\* the account and the other lost its append.
C32_Witness ==
    \E a, b \in Execs :
        /\ a # b
        /\ ex[a].input.cmd = "TransferFunds" /\ ex[b].input.cmd = "TransferFunds"
        /\ ex[a].input.source_account = ex[b].input.source_account
        /\ ex[a].input.source_account # "god"
        /\ ex[a].pc = "done" /\ ex[a].result.kind = "Ok"
        /\ ex[b].pc = "done" /\ ex[b].result.kind = "Integrity"
        /\ ex[b].log_before = ex[a].log_before
        /\ LogBalance(ex[a].input.source_account) = 0

\* Two OpenAccount executions raced on one account: one opened it, the
\* other lost its append.
C32_OpenWitness ==
    \E a, b \in Execs :
        /\ ex[a].input.cmd = "OpenAccount" /\ ex[b].input.cmd = "OpenAccount"
        /\ ex[a].input.account_id = ex[b].input.account_id
        /\ ex[a].result.kind = "Ok" /\ ex[b].result.kind = "Integrity"
        /\ ex[b].log_before = ex[a].log_before

--------------------------------------------------------------------------
(* C33 *)

\* The positions of the events of a task, of the given types.
TaskPositions(t, types) ==
    {p \in DOMAIN log : log[p].event_type \in types /\ log[p].data.task_id = t}

TaskEventTypes == {"TaskCreated", "TaskRenamed", "TaskStatusChanged", "TaskDeleted"}

\* C33: under any interleaving of concurrent CreateTask, RenameTask,
\* ChangeTaskStatus and DeleteTask executions, the log of each task_id is
\* a TaskCreated, then TaskRenamed / TaskStatusChanged events, then at most
\* one TaskDeleted: no TaskRenamed or TaskStatusChanged is after the
\* task's TaskDeleted, and no task has two TaskCreated or two TaskDeleted.
C33_TaskLogShape ==
    \A t \in Tasks :
        /\ Cardinality(TaskPositions(t, {"TaskCreated"})) <= 1
        /\ Cardinality(TaskPositions(t, {"TaskDeleted"})) <= 1
        /\ \A c \in TaskPositions(t, {"TaskCreated"}) :
              \A p \in TaskPositions(t, TaskEventTypes) : c <= p
        /\ TaskPositions(t, TaskEventTypes) # {} => TaskPositions(t, {"TaskCreated"}) # {}
        /\ \A d \in TaskPositions(t, {"TaskDeleted"}) :
              \A p \in TaskPositions(t, TaskEventTypes) : p <= d

\* A rename or a status change that read the task before a concurrent
\* delete was appended lost its append.
C33_Witness ==
    \E a, b \in Execs :
        /\ ex[a].input.cmd = "DeleteTask" /\ ex[a].result.kind = "Ok" /\ ex[a].appends # <<>>
        /\ ex[b].input.cmd \in {"RenameTask", "ChangeTaskStatus"}
        /\ ex[b].input.task_id = ex[a].input.task_id
        /\ ex[b].log_before = ex[a].log_before
        /\ ex[b].result.kind = "Integrity"

\* A rename and a status change of one task, started from the same store,
\* were both appended.
C33_BothWitness ==
    \E a, b \in Execs :
        /\ ex[a].input.cmd = "RenameTask" /\ ex[b].input.cmd = "ChangeTaskStatus"
        /\ ex[a].input.task_id = ex[b].input.task_id
        /\ ex[a].log_before = ex[b].log_before
        /\ ex[a].result.kind = "Ok" /\ ex[a].appends # <<>>
        /\ ex[b].result.kind = "Ok" /\ ex[b].appends # <<>>

--------------------------------------------------------------------------
(* C34 *)

\* The deadline of the runner's flush window.
FlushDeadline(r) ==
    runner[r].last_flushed_at
    + (IF OptLe(runner[r].position, runner[r].head)
       THEN replay_time_interval ELSE live_time_interval)

\* Event p was taken from the stream by the runner and counted, and the
\* deadline of its window is a reading the clock can reach.
AwaitsFlush(r, p) ==
    /\ runner[r].pc = "idle"
    /\ runner[r].events_since_flush > 0
    /\ runner[r].position = Some(p)
    /\ FlushDeadline(r) <= MaxTime

\* The committed checkpoint covers position p and the window is closed.
FlushedThrough(r, p) ==
    /\ OptLe(Some(p), row)
    /\ p \in DOMAIN events /\ events[p] = "event" => <<r, p>> \in durable

--------------------------------------------------------------------------
(* C35 *)

\* The position of the last event the stream delivered to the runner, if
\* it delivered any.
LastDelivered(r) ==
    IF runner[r].cursor > (IF runner[r].start = None THEN 1 ELSE runner[r].start[1])
    THEN Some(runner[r].cursor - 1) ELSE None

\* C35 (run() is the loop of next() up to its first error, so the runner
\* has returned no error): when run() returns Ok(()) because the stream ended, every event
\* handed to the handler has been flushed: events_since_flush is 0, no
\* transaction is open, and the durable checkpoint is the position of the
\* last delivered event.
C35_RunEndsFlushed ==
    \A r \in Runners :
        (runner[r].pc = "ended" /\ runner[r].result = "Ok(false)" /\ ~runner[r].erred)
        => /\ runner[r].events_since_flush = 0
           /\ runner[r].transaction = None
           /\ LastDelivered(r) # None => row = LastDelivered(r)

--------------------------------------------------------------------------
(* C36 *)

\* The runner is between two calls of next(), the last of which returned
\* Ok(true), or it was built and next() was not called yet.
BetweenCalls(r) == runner[r].pc = "idle" /\ runner[r].result \in {"", "Ok(true)"}

TransactionIffPending(r) ==
    runner[r].transaction # None <=> runner[r].events_since_flush > 0

C36_ReopenedWitness ==
    \E r \in Runners :
        /\ BetweenCalls(r) /\ ~runner[r].erred
        /\ \E i \in DOMAIN saved : saved[i].runner = r
        /\ runner[r].events_since_flush > 0
        /\ runner[r].transaction # None

--------------------------------------------------------------------------
(* C37 *)

\* This step is a next() of runner r that took from the stream an event
\* of a type outside the handler's EventSet, with a transaction at hand.
SkipsEvent(r) ==
    /\ runner[r].pc = "idle"
    /\ runner'[r].call = "event"
    /\ runner'[r].cursor = runner[r].cursor + 1
    /\ runner[r].cursor \in DOMAIN events
    /\ events[runner[r].cursor] = "other"
    /\ runner'[r].result # "Err(Sqlx)"

\* C37: when the stream delivers an event whose type is not in the
\* handler's EventSet, handler.handle is not invoked for it, but position
\* is set to that event's position and events_since_flush is incremented:
\* the skipped event counts toward the flush thresholds and is covered by
\* the next checkpoint.
C37_SkippedEventCounts ==
    [][\A r \in Runners :
          SkipsEvent(r) =>
            LET pos == runner[r].cursor
                fin == runner'[r].fin
            IN  /\ runner'[r].handled = runner[r].handled
                /\ fin.called
                /\ fin.position = Some(pos)
                /\ fin.events_since_flush = runner[r].events_since_flush + 1
                /\ fin.flush = should_flush(runner[r].events_since_flush + 1,
                                            runner[r].last_flushed_at,
                                            OptLe(Some(pos), runner[r].head))
                /\ (fin.flush /\ runner[r].transaction # None)
                      => /\ runner'[r].pc = "save"
                         /\ runner'[r].fl_position = pos]_vars

\* The checkpoint committed for a skipped event: the row is at an event
\* outside the set, which no handler was called for.
C37_Witness ==
    \E r \in Runners :
        /\ row # None
        /\ events[row[1]] = "other"
        /\ \E i \in DOMAIN saved : saved[i].runner = r /\ saved[i].position = row[1]
        /\ row[1] \notin SeqToSet(runner[r].handled)
        /\ runner[r].pc = "idle" /\ runner[r].result = "Ok(true)"

--------------------------------------------------------------------------
(* C38 *)

\* This step is the return of timeout_at by its deadline in a next() of r.
TimesOut(r) == runner[r].pc = "idle" /\ runner'[r].pc # "new" /\ runner'[r] # runner[r]
                                      /\ runner'[r].call = "timeout"

\* What next() does when it awaits the stream: with events_since_flush = 0
\* there is no deadline, so the call is not ended by one; with
\* events_since_flush > 0 the deadline last_flushed_at + interval ends it,
\* flush_if_necessary is called, no stream item is consumed, and position
\* and events_since_flush change through that flush only.
AwaitsUnderDeadline ==
    \A r \in Runners :
        TimesOut(r) =>
            LET x == runner[r]
                y == runner'[r]
            IN  /\ x.events_since_flush > 0
                /\ now >= FlushDeadline(r)
                /\ y.cursor = x.cursor
                /\ y.handled = x.handled
                /\ y.fin.called
                /\ y.fin.position = x.position
                /\ y.fin.events_since_flush = x.events_since_flush
                /\ y.events_since_flush = x.events_since_flush
                /\ ~y.fin.flush => (y.position = x.position /\ y.transaction = x.transaction)
                /\ y.fin.flush => \/ y.pc = "save" /\ y.position = None
                                  \/ y.pc = "idle" /\ y.position = None

\* A next() ended by the deadline has returned.
TimedOutReturned(r) == runner[r].call = "timeout" /\ runner[r].pc = "idle"

\* C38, as stated: when events_since_flush = 0, next() waits for the next
\* stream item with no deadline and performs no flush while idle; when
\* events_since_flush > 0 and the deadline last_flushed_at + interval
\* passes before an item arrives, next() calls flush_if_necessary,
\* consumes no stream item, changes neither position nor
\* events_since_flush other than through that flush, and returns Ok(true).
C38_DeadlineReturnsOk ==
    /\ [][AwaitsUnderDeadline]_vars
    /\ [](\A r \in Runners : TimedOutReturned(r) => runner[r].result = "Ok(true)")

\* C38, with the return of a failed flush: as above, and next() returns
\* Ok(true) unless that flush failed at save, handler.flush, commit or
\* post_commit, whose error it returns.
C38_DeadlineFlushes ==
    /\ [][AwaitsUnderDeadline]_vars
    /\ [](\A r \in Runners :
            TimedOutReturned(r) =>
                \/ runner[r].result = "Ok(true)"
                \/ /\ runner[r].failed_at \in {"save", "handler_flush", "commit", "post_commit"}
                   /\ runner[r].result \notin {"Ok(true)", "Ok(false)"}
                   /\ runner[r].fin.flush)

\* A next() ended by the deadline flushed the pending event and returned
\* Ok(true) with the window reset.
C38_Witness ==
    \E r \in Runners :
        /\ TimedOutReturned(r) /\ runner[r].result = "Ok(true)"
        /\ runner[r].fin.flush /\ runner[r].fin.events_since_flush > 0
        /\ runner[r].events_since_flush = 0
        /\ row = runner[r].fin.position


--------------------------------------------------------------------------
(* C39 *)

\* The field name of a tag "field:value".
FieldOfTag(tag) == CHOOSE f \in Fields : \E v \in Values : tag = Tag(f, v)

\* The place of a field name in the order of str::cmp.
FieldRank(f) == CHOOSE i \in DOMAIN FieldOrder : FieldOrder[i] = f

\* The tags of an item follow the lexicographic order of their field names.
TagsInFieldOrder(tags) ==
    \A i, j \in DOMAIN tags :
        i < j => FieldRank(FieldOfTag(tags[i])) < FieldRank(FieldOfTag(tags[j]))

\* The tag sequences of the items of a plan.
TagSeqs(items) == {items[k].tags : k \in DOMAIN items}

\* C39: in every item returned by build_query_items the tags are in the
\* lexicographic order of their field names (the bet_id tag before the
\* user_id tag), and a second call with the same EventSet and bindings
\* returns the items' tags in the same order.
C39_TagsInFieldOrder ==
    /\ plPc \in {"planned", "done"}
       => \A k \in DOMAIN plItems : TagsInFieldOrder(plItems[k].tags)
    /\ plAgain # None => TagSeqs(plAgain[1]) = TagSeqs(plItems)


--------------------------------------------------------------------------
(* C40 *)

\* ---- SpecPlanAny ----

\* Bindings as a hand-written CommandInput::domain_id_bindings may return
\* them: a key may be inserted with an empty Vec.
AnyValueSeqs == UNION {[1..n -> Values] : n \in 0..MaxVals}
AnyBindings == UNION {[K -> AnyValueSeqs] : K \in SUBSET Fields}

PlanAnyInit ==
    /\ plSet \in EventSetNames
    /\ plBindings \in AnyBindings
    /\ plEvent \in EventInstances(plSet)
    /\ plItems = <<>>
    /\ plAgain = None
    /\ plDcb = [event_type |-> "", tags |-> {}]
    /\ plPc = "init"
    /\ ExecIdle
    /\ ProjIdle
    /\ BlkIdle

SpecPlanAny == PlanAnyInit /\ [][PlanNext]_vars

\* The event types of the items of a plan.
PlannedTypes(items) == UNION {SeqToSet(items[k].types) : k \in DOMAIN items}

\* C40: whatever the bindings (a key may map to any sequence of values),
\* every event type of the EventSet is among the types of at least one item
\* of the plan, no item holds a type outside the EventSet, and the plan of
\* a non-empty EventSet has at least one item.
C40_EveryTypePlanned ==
    plPc \in {"planned", "done"}
    => /\ SeqToSet(EVENT_TYPES(plSet)) \subseteq PlannedTypes(plItems)
       /\ PlannedTypes(plItems) \subseteq SeqToSet(EVENT_TYPES(plSet))
       /\ EVENT_TYPES(plSet) # <<>> => plItems # <<>>

=============================================================================
